---- MODULE Spec2Model ----
(***************************************************************************)
(* A model of krates' feature-aware graph builder                          *)
(* (Builder::build_with_metadata, src/src/builder.rs).                     *)
(*                                                                         *)
(* Conventions of the translation:                                         *)
(*  - a Kid is a positive integer; integer order is the (name, version,    *)
(*    source) order of Kid::cmp, KidName gives Kid::name();                *)
(*  - a capability name is a string; NameOrder lists the names in byte     *)
(*    order, so that sort() and binary_search() can be computed;           *)
(*  - Rust's 0-based indices become 1-based; Option<usize>::None is 0;     *)
(*  - a capability-list entry such as "d?/f" is the token sequence         *)
(*    <<"d", "?/", "f">>, classified by ParsedFeature as the code does;    *)
(*  - a panic (unreachable!, unwrap on None, expect) ends the build with   *)
(*    the outcome "panic".                                                 *)
(***************************************************************************)
EXTENDS Integers, Sequences, FiniteSets, TLC

VARIABLES
    md,               \* the cargo_metadata::Metadata handed to build_with_metadata
    exclude,          \* Builder.exclude: the PkgSpecs (package names)
    ignore_kinds,     \* Builder.ignore_kinds: the u32 bitset
    ignore_calls,     \* history: the <<kind, scope>> arguments of ignore_kind so far
    target_filters,   \* Builder.target_filters: the configured triples
    workspace,        \* Builder.workspace: the flag set by workspace()
    workspace_filters,\* Builder.workspace_filters: the stored manifest paths
    given_paths,      \* history: the paths handed to include_workspace_crates
    package_ids,      \* history: the PackageId strings handed to Kid::from
    kids,             \* the Kids made of them, in order
    matched,          \* the last call of PkgSpec::matches and its answer
    caching_index,    \* the CachingIndex: its cache map and the state of its RwLock
    threads,          \* the threads that call the CachingIndex: position and call
    pc,               \* where the build is: config, visit, nodes, deps, feats, done
    visit_stack,      \* the worklist of <<pid, feature index or 0>>
    feature_edge_map, \* Kid -> KrateFeatures
    dep_edge_map,     \* Kid -> PackageNode
    graph_nodes,      \* petgraph node table
    graph_edges,      \* petgraph edge table
    krates_end,       \* number of package nodes
    cursor,           \* position of the post-pass loop that is running
    feature_stack,    \* the capability names still to wire for the current package
    enabled,          \* the declared capability graph left for the current package
    filtered,         \* the package ids handed to on_filter, in order
    expanded,         \* the work items that passed both guards, in order
    result            \* running, Ok, NoResolveGraph, NoRootKrates, panic

vars == <<md, exclude, ignore_kinds, ignore_calls, target_filters, workspace,
          workspace_filters, given_paths, package_ids, kids, matched, caching_index,
          threads, pc, visit_stack,
          feature_edge_map, dep_edge_map, graph_nodes, graph_edges, krates_end,
          cursor, feature_stack, enabled, filtered, expanded, result>>

----------------------------------------------------------------------------
(* Generic helpers *)

Range(s) == {s[i] : i \in DOMAIN s}

RECURSIVE SortInts(_)
\* a Vec<Kid>::sort() / the iteration order of a BTreeSet or BTreeMap of Kids
SortInts(S) ==
    IF S = {} THEN <<>>
    ELSE LET m == CHOOSE x \in S : \A y \in S : x <= y
         IN <<m>> \o SortInts(S \ {m})

\* capability and package names in byte order
NameOrder == <<"a", "b", "d", "default", "f", "g", "r", "x", "y">>

Rank(n) == CHOOSE i \in DOMAIN NameOrder : NameOrder[i] = n

RECURSIVE SortNames(_)
\* features.sort() on the resolver's list of enabled capabilities
SortNames(S) ==
    IF S = {} THEN <<>>
    ELSE LET m == CHOOSE x \in S : \A y \in S : Rank(x) <= Rank(y)
         IN <<m>> \o SortNames(S \ {m})

RECURSIVE BitAnd(_, _)
BitAnd(a, b) ==
    IF a = 0 \/ b = 0 THEN 0
    ELSE (IF a % 2 = 1 /\ b % 2 = 1 THEN 1 ELSE 0) + 2 * BitAnd(a \div 2, b \div 2)

RECURSIVE BitOr(_, _)
BitOr(a, b) ==
    IF a = 0 THEN b
    ELSE IF b = 0 THEN a
    ELSE (IF a % 2 = 1 \/ b % 2 = 1 THEN 1 ELSE 0) + 2 * BitOr(a \div 2, b \div 2)

RECURSIVE Shl(_, _)
Shl(x, n) == IF n = 0 THEN x ELSE Shl(2 * x, n - 1)

\* the empty map (BTreeMap::new())
EmptyMap == [k \in {} |-> 0]

\* BTreeMap entry assignment
Put(m, k, v) == [x \in (DOMAIN m) \cup {k} |-> IF x = k THEN v ELSE m[x]]

\* BTreeMap::remove
Del(m, k) == [x \in (DOMAIN m) \ {k} |-> m[x]]

----------------------------------------------------------------------------
(* Dependency kinds and the kind filter mask *)

DepKinds == {"Normal", "Dev", "Build"}
Scopes == {"Workspace", "NonWorkspace", "All"}

\* the per-kind base flag of Builder::ignore_kind and of the edge filter
KindFlag(kind) ==
    CASE kind = "Normal" -> 1
      [] kind = "Dev" -> 8
      [] kind = "Build" -> 64

\* Builder::ignore_kind: the new value of ignore_kinds
IgnoreKindMask(old, kind, scope) ==
    LET kind_flag == KindFlag(kind)
        withKind == BitOr(old, kind_flag)
    IN BitOr(withKind,
             CASE scope = "Workspace" -> Shl(kind_flag, 1)
               [] scope = "NonWorkspace" -> Shl(kind_flag, 2)
               [] scope = "All" -> BitOr(Shl(kind_flag, 1), Shl(kind_flag, 2)))

\* KindIgnored with the test `mask & ignore_kinds != 0`
KindIgnoredAnyBit(mask_bits, kind, is_in_workspace) ==
    LET m0 == KindFlag(kind)
        mask == BitOr(m0, Shl(m0, IF is_in_workspace THEN 1 ELSE 2))
    IN BitAnd(mask, mask_bits) # 0

\* the test at the head of the per-variant filter: TRUE when the variant is dropped
KindIgnored(mask_bits, kind, is_in_workspace) ==
    LET m0 == KindFlag(kind)
        mask == BitOr(m0, Shl(m0, IF is_in_workspace THEN 1 ELSE 2))
    IN BitAnd(mask, mask_bits) = mask

----------------------------------------------------------------------------
(* Capability references *)

\* ParsedFeature that takes the "?/" form for the strong form
ParsedFeatureNoWeak(f) ==
    IF f[1] = "dep:" THEN [type |-> "Krate", krate |-> f[2], feature |-> ""]
    ELSE IF \E i \in DOMAIN f : f[i] \in {"?/", "/"}
         THEN LET ind == CHOOSE i \in DOMAIN f :
                             f[i] \in {"?/", "/"}
                             /\ \A j \in 1..(i - 1) : f[j] \notin {"?/", "/"}
              IN [type |-> "Strong", krate |-> f[ind - 1], feature |-> f[ind + 1]]
    ELSE [type |-> "Simple", krate |-> "", feature |-> f[1]]

\* ParsedFeature::from and ParsedFeature::feat: the patterns are tried in the
\* order dep: prefix, first "?/", first "/", else a local name
ParsedFeature(f) ==
    IF f[1] = "dep:" THEN [type |-> "Krate", krate |-> f[2], feature |-> ""]
    ELSE IF \E i \in DOMAIN f : f[i] = "?/"
         THEN LET ind == CHOOSE i \in DOMAIN f :
                             f[i] = "?/" /\ \A j \in 1..(i - 1) : f[j] # "?/"
              IN [type |-> "Weak", krate |-> f[ind - 1], feature |-> f[ind + 1]]
    ELSE IF \E i \in DOMAIN f : f[i] = "/"
         THEN LET ind == CHOOSE i \in DOMAIN f :
                             f[i] = "/" /\ \A j \in 1..(i - 1) : f[j] # "/"
              IN [type |-> "Strong", krate |-> f[ind - 1], feature |-> f[ind + 1]]
    ELSE [type |-> "Simple", krate |-> "", feature |-> f[1]]

----------------------------------------------------------------------------
(* Package specifications (the exclusion list) *)

\* position of the first token equal to t in the token sequence s, 0 if none
\* (str::find)
Find(s, t) ==
    IF \E i \in DOMAIN s : s[i] = t
    THEN CHOOSE i \in DOMAIN s : s[i] = t /\ \A j \in 1..(i - 1) : s[j] # t
    ELSE 0

\* PkgSpec::matches that asks for the version of the package
PkgSpecMatchesVersioned(spec, krate) ==
    spec.name = krate.name /\ spec.version = krate.version

\* PkgSpec::matches. A spec is [name, version, url]; "" is None for the
\* version, <<>> is None for the url and for the package's source. A source
\* is a token sequence such as <<"registry", "+", "idx">>.
PkgSpecMatches(spec, krate) ==
    IF spec.name # krate.name THEN FALSE
    ELSE IF spec.version # "" /\ spec.version # krate.version THEN FALSE
    ELSE IF spec.url = <<>> \/ krate.source = <<>> THEN TRUE
    ELSE LET src == krate.source
             begin == Find(src, "+") + 1
             q == Find(src, "?")
             h == Find(src, "#")
             end == IF q # 0 THEN q - 1 ELSE IF h # 0 THEN h - 1 ELSE Len(src)
         IN spec.url = SubSeq(src, begin, end)

----------------------------------------------------------------------------
(* Platform filter *)

NoCfg == [form |-> "none"]

\* cfg_expr::targets::get_builtin_target_by_triple: the platforms the table
\* of builtin targets knows ("linux" for x86_64-unknown-linux-gnu, "musl" for
\* x86_64-unknown-linux-musl, "windows" for x86_64-pc-windows-msvc), with
\* the properties its predicates are matched against
BuiltinTargets == {"linux", "musl", "windows"}

TargetInfo(triple) ==
    CASE triple = "linux" -> [os |-> "linux", family |-> "unix", env |-> "gnu"]
      [] triple = "musl" -> [os |-> "linux", family |-> "unix", env |-> "musl"]
      [] triple = "windows" ->
            [os |-> "windows", family |-> "windows", env |-> "msvc"]

\* Target::from(triple), built without the `targets` feature: Builtin for a
\* triple of the table, Unknown otherwise. A configured platform is kept as
\* [triple, features]; its Target is read off the triple.
TargetOf(triple) ==
    IF triple \in BuiltinTargets
    THEN [kind |-> "Builtin", triple |-> triple, info |-> TargetInfo(triple)]
    ELSE [kind |-> "Unknown", triple |-> triple]

\* TargetFilter::matches_triple
matches_triple(target, triple) == target.triple = triple

\* TargetFilter::eval whose capability flags never match
evalNoFlags(target, predicate) ==
    /\ predicate.kind = "Target"
    /\ TargetOf(target.triple).kind = "Builtin"
    /\ TargetOf(target.triple).info[predicate.key] = predicate.value

\* TargetFilter::eval. A predicate is [kind |-> "Target", key, value] (a
\* cfg_expr TargetPredicate), [kind |-> "TargetFeature", value] or
\* [kind |-> "Other"] (any other predicate, such as feature = "x").
eval(target, predicate) ==
    CASE predicate.kind = "Target" ->
            /\ TargetOf(target.triple).kind = "Builtin"
            /\ TargetOf(target.triple).info[predicate.key] = predicate.value
      [] predicate.kind = "TargetFeature" ->
            \E i \in DOMAIN target.features : target.features[i] = predicate.value
      [] OTHER -> FALSE

\* A parsed cfg_expr::Expression is [op |-> "pred", pred |-> p] or
\* [op |-> "not" | "all" | "any", args |-> the operands].
RECURSIVE ExprEval(_, _)
\* Expression::eval with the closure |pred| target.eval(pred)
ExprEval(expr, target) ==
    CASE expr.op = "pred" -> eval(target, expr.pred)
      [] expr.op = "not" -> ~ExprEval(expr.args[1], target)
      [] expr.op = "all" ->
            \A i \in DOMAIN expr.args : ExprEval(expr.args[i], target)
      [] expr.op = "any" ->
            \E i \in DOMAIN expr.args : ExprEval(expr.args[i], target)

RECURSIVE ExprEvalTrue(_)
\* Expression::eval with the closure |_| true
ExprEvalTrue(expr) ==
    CASE expr.op = "pred" -> TRUE
      [] expr.op = "not" -> ~ExprEvalTrue(expr.args[1])
      [] expr.op = "all" -> \A i \in DOMAIN expr.args : ExprEvalTrue(expr.args[i])
      [] expr.op = "any" -> \E i \in DOMAIN expr.args : ExprEvalTrue(expr.args[i])

RECURSIVE PredicatesOf(_)
\* Expression::predicates
PredicatesOf(expr) ==
    IF expr.op = "pred" THEN {expr.pred}
    ELSE UNION {PredicatesOf(expr.args[i]) : i \in DOMAIN expr.args}

\* TargetSurvives that keeps every conditioned variant when no platform is
\* requested
TargetSurvivesKeepAll(cfg, targets) ==
    IF cfg.form = "none" THEN TRUE
    ELSE IF targets # <<>>
         THEN IF cfg.form = "cfg"
              THEN IF cfg.parses
                   THEN \E i \in DOMAIN targets : ExprEval(cfg.expr, targets[i])
                   ELSE TRUE
              ELSE \E i \in DOMAIN targets : matches_triple(targets[i], cfg.triple)
    ELSE TRUE

\* TargetSurvives that drops every conditioned variant once a platform is
\* requested
TargetSurvivesNoMatch(cfg, targets) == cfg.form = "none" \/ targets = <<>>

\* the platform part of the per-variant filter: TRUE when the variant's
\* condition lets it through. A condition is NoCfg, [form |-> "triple",
\* triple |-> t] or, for a text that starts with "cfg(", [form |-> "cfg",
\* parses |-> whether Expression::parse succeeds, expr |-> the expression].
TargetSurvives(cfg, targets) ==
    IF cfg.form = "none" THEN TRUE
    ELSE IF targets # <<>>
         THEN IF cfg.form = "cfg"
              THEN IF cfg.parses
                   THEN \E i \in DOMAIN targets : ExprEval(cfg.expr, targets[i])
                   ELSE TRUE
              ELSE \E i \in DOMAIN targets : matches_triple(targets[i], cfg.triple)
    ELSE IF cfg.form = "cfg"
         THEN ~(/\ cfg.parses
                /\ PredicatesOf(cfg.expr) = {}
                /\ ~ExprEvalTrue(cfg.expr))
    ELSE TRUE

----------------------------------------------------------------------------
(* The report, as build_with_metadata prepares it *)

\* Kid::name() of the packages of the universe
PackageNames == <<"a", "b", "d", "r">>

KidName(kid) == PackageNames[kid]

RECURSIVE SortByIdDescending(_)
\* SortById with the comparison reversed
SortByIdDescending(recs) ==
    IF recs = {} THEN <<>>
    ELSE LET r == CHOOSE x \in recs : \A y \in recs : x.id >= y.id
         IN <<r>> \o SortByIdDescending(recs \ {r})

RECURSIVE SortById(_)
\* packages.sort_by(id) and nodes.sort_by(id)
SortById(recs) ==
    IF recs = {} THEN <<>>
    ELSE LET r == CHOOSE x \in recs : \A y \in recs : x.id <= y.id
         IN <<r>> \o SortById(recs \ {r})

RECURSIVE SortDeps(_)
\* deps.sort_by(pkg)
SortDeps(recs) ==
    IF recs = {} THEN <<>>
    ELSE LET r == CHOOSE x \in recs : \A y \in recs : x.pkg <= y.pkg
         IN <<r>> \o SortDeps(recs \ {r})

\* the sorted package list
Packages(m) == SortById(Range(m.packages))

\* the builder's own resolution nodes: dependencies sorted by package,
\* capabilities sorted, has_default_feature computed
Nodes(m) ==
    SortById({ [id |-> rn.id,
                deps |-> SortDeps(Range(rn.deps)),
                features |-> SortNames(Range(rn.features)),
                has_default_feature |-> "default" \in Range(rn.features)]
               : rn \in Range(m.nodes) })

\* nodes.binary_search_by(id): the index, 0 when the search fails
NodeIndex(nodes, pid) ==
    IF \E i \in DOMAIN nodes : nodes[i].id = pid
    THEN CHOOSE i \in DOMAIN nodes : nodes[i].id = pid
    ELSE 0

\* Node::feature_index: 0 stands for the unreachable!() of a failed search
feature_index(rnode, feat) ==
    IF \E i \in DOMAIN rnode.features : rnode.features[i] = feat
    THEN CHOOSE i \in DOMAIN rnode.features : rnode.features[i] = feat
    ELSE 0

\* dep_names_match: equal up to '-' in the declared name against '_' in the
\* resolved one; no name of the universe holds either character
dep_names_match(krate_dep_name, resolved_name) == krate_dep_name = resolved_name

\* A path is the sequence of its components below the file system root.
\* Path::parent: the path without its last component; None for the root
parent(path) ==
    IF path = <<>> THEN "None" ELSE SubSeq(path, 1, Len(path) - 1)

\* Path::ends_with("Cargo.toml"): the last component is Cargo.toml
ends_with_manifest(path) == path # <<>> /\ path[Len(path)] = "Cargo.toml"

\* Roots without the fallback for the workspace's own manifest
RootsNoFallback(m, c) ==
    IF c.workspace_filters = <<>>
    THEN LET fromRoot == IF ~c.workspace /\ m.root # 0 THEN {m.root} ELSE {}
         IN IF fromRoot = {} THEN m.workspace_members ELSE fromRoot
    ELSE {wm \in m.workspace_members :
            \E i \in DOMAIN m.packages :
                /\ m.packages[i].id = wm
                /\ \E j \in DOMAIN c.workspace_filters :
                       c.workspace_filters[j] = m.packages[i].manifest_path}

\* the traversal's root set
Roots(m, c) ==
    IF c.workspace_filters = <<>>
    THEN LET fromRoot == IF ~c.workspace /\ m.root # 0 THEN {m.root} ELSE {}
         IN IF fromRoot = {} THEN m.workspace_members ELSE fromRoot
    ELSE IF Len(c.workspace_filters) = 1
            /\ parent(c.workspace_filters[1]) = m.workspace_root
         THEN m.workspace_members
         ELSE {wm \in m.workspace_members :
                 \E i \in DOMAIN Packages(m) :
                     /\ Packages(m)[i].id = wm
                     /\ \E j \in DOMAIN c.workspace_filters :
                            c.workspace_filters[j] = Packages(m)[i].manifest_path}

RECURSIVE SeedItems(_, _, _)
\* the initial visit_stack: for each root in order, its None item and then
\* one item per capability index
SeedItems(nodes, roots, i) ==
    IF i > Len(roots) THEN <<>>
    ELSE LET rnode == nodes[NodeIndex(nodes, roots[i])]
         IN <<<<roots[i], 0>>>>
            \o [k \in 1..Len(rnode.features) |-> <<roots[i], k>>]
            \o SeedItems(nodes, roots, i + 1)

\* a guard that lets every item through
checkNever(map, pid, feature) == FALSE

\* a guard that asks only whether the package has been seen
checkPackageOnly(map, pid, feature) == pid \in DOMAIN map

\* the already-processed guard
check(map, pid, feature) ==
    IF pid \notin DOMAIN map THEN FALSE
    ELSE IF feature # 0 THEN feature \in map[pid].actual
    ELSE map[pid].filled_non_optional

\* the closure that resolves a dependency name used in a capability list
get_dep_id(rnode, dep_name) ==
    LET hit(i) == dep_names_match(dep_name, rnode.deps[i].name)
                  \/ dep_name = KidName(rnode.deps[i].pkg)
    IN IF \E i \in DOMAIN rnode.deps : hit(i)
       THEN rnode.deps[CHOOSE i \in DOMAIN rnode.deps :
                          hit(i) /\ \A j \in 1..(i - 1) : ~hit(j)].pkg
       ELSE 0

\* filter_map over a sequence: keeps the elements that are not "skip"
RECURSIVE Compact(_)
Compact(s) ==
    IF s = <<>> THEN <<>>
    ELSE IF Head(s) = <<>> THEN Compact(Tail(s))
    ELSE Head(s) \o Compact(Tail(s))

\* one FeatureEdge of the declared capability graph, <<>> when the entry is
\* dropped; a one-element sequence otherwise
FeatureEdgeOf(rnode, pid, sub_feat) ==
    LET sf == ParsedFeature(sub_feat)
        kid == get_dep_id(rnode, sf.krate)
    IN CASE sf.type = "Krate" ->
              IF kid = 0 THEN <<>>
              ELSE IF KidName(kid) # sf.krate
                   THEN <<[kid |-> kid, name |-> "Rename", str |-> sf.krate]>>
                   ELSE <<[kid |-> kid, name |-> "Krate", str |-> ""]>>
         [] sf.type = "Simple" ->
              <<[kid |-> pid, name |-> "Feature", str |-> sf.feature]>>
         [] sf.type = "Strong" ->
              IF kid = 0 THEN <<>>
              ELSE <<[kid |-> kid, name |-> "Feature", str |-> sf.feature]>>
         [] sf.type = "Weak" ->
              IF \E i \in DOMAIN rnode.features : rnode.features[i] = sf.krate
              THEN IF kid = 0 THEN <<>>
                   ELSE <<[kid |-> kid, name |-> "Feature", str |-> sf.feature]>>
              ELSE <<>>

\* KrateFeatures as first built for a package: the declared capability graph
\* of the capabilities the resolver reports, nothing enabled yet
NewKrateFeatures(rnode, krate, pid) ==
    [graph |-> Compact(
        [i \in DOMAIN rnode.features |->
            LET feat == rnode.features[i]
            IN IF feat \notin DOMAIN krate.features THEN <<>>
               ELSE << <<feat,
                         Compact([j \in DOMAIN krate.features[feat] |->
                             FeatureEdgeOf(rnode, pid, krate.features[feat][j])])>> >>]),
     actual |-> {},
     pending_weak |-> EmptyMap,
     filled_non_optional |-> FALSE]

----------------------------------------------------------------------------
(* The worklist traversal: one pass of the `while let Some(..) = pop()` loop *)

Push(stack, item) == Append(stack, item)

RECURSIVE PushAll(_, _, _)
\* pushes <<pkg, f>> for every f of the sequence feats, in order
PushAll(stack, pkg, feats) ==
    IF feats = <<>> THEN stack
    ELSE PushAll(Push(stack, <<pkg, Head(feats)>>), pkg, Tail(feats))

\* the first resolved dependency of rnode that a capability entry names
FindNodeDep(rnode, krate_name) ==
    LET hit(i) == dep_names_match(krate_name, rnode.deps[i].name)
                  \/ krate_name = KidName(rnode.deps[i].pkg)
    IN IF \E i \in DOMAIN rnode.deps : hit(i)
       THEN CHOOSE i \in DOMAIN rnode.deps : hit(i) /\ \A j \in 1..(i - 1) : ~hit(j)
       ELSE 0

\* deps.entry(pkg).or_insert_with(|| (ndep, Some(BTreeSet::new())))
DepsEntry(deps, ndep) ==
    IF ndep.pkg \in DOMAIN deps THEN deps
    ELSE Put(deps, ndep.pkg, [ndep |-> ndep, some |-> TRUE, feats |-> {}])

RECURSIVE SubFeatureLoop(_, _, _, _, _, _, _)
\* `for sf in fs`: the entries of one enabled capability, from entry i on.
\* acc = [stack, pending_weak, deps, panic]; pn_deps is the package's
\* dependency map as it was when the work item was popped.
SubFeatureLoop(nodes, rnode, pid, pn_deps, fs, i, acc) ==
    IF i > Len(fs) \/ acc.panic THEN acc
    ELSE
    LET pf == ParsedFeature(fs[i])
        next(a) == SubFeatureLoop(nodes, rnode, pid, pn_deps, fs, i + 1, a)
    IN IF pf.type = "Simple"
       THEN LET fi == feature_index(rnode, pf.feature)
            IN IF fi = 0 THEN [acc EXCEPT !.panic = TRUE]
               ELSE next([acc EXCEPT !.stack = Push(@, <<pid, fi>>)])
       ELSE
       LET di == FindNodeDep(rnode, pf.krate)
       IN IF di = 0 THEN next(acc)
          ELSE
          LET ndep == rnode.deps[di]
              ri == NodeIndex(nodes, ndep.pkg)
          IN IF ri = 0 THEN [acc EXCEPT !.panic = TRUE]
             ELSE
             LET rdep_node == nodes[ri]
                 is_weak == pf.type = "Weak"
                 fi == IF pf.type = "Krate" THEN 0
                       ELSE feature_index(rdep_node, pf.feature)
             IN IF pf.type # "Krate" /\ fi = 0 THEN [acc EXCEPT !.panic = TRUE]
                ELSE IF is_weak /\ ndep.pkg \notin DOMAIN pn_deps
                THEN next([acc EXCEPT !.pending_weak =
                        Put(@, ndep.pkg,
                            (IF ndep.pkg \in DOMAIN @ THEN @[ndep.pkg] ELSE {})
                                \cup {fi})])
                ELSE
                LET pending == IF ndep.pkg \in DOMAIN acc.pending_weak
                               THEN acc.pending_weak[ndep.pkg] ELSE {}
                    d1 == DepsEntry(acc.deps, ndep)
                    added == pending \cup (IF pf.type = "Krate" THEN {} ELSE {fi})
                    d2 == [d1 EXCEPT ![ndep.pkg].feats = @ \cup added]
                IN next([acc EXCEPT !.pending_weak = Del(@, ndep.pkg),
                                    !.deps = d2])

\* the declaration of krate that a resolved (kind, condition) variant dk of
\* the dependency rdep comes from: its index, 0 when there is none (the
\* panic "cargo metadata resolved a dependency for a dependency not
\* specified by the crate"). Every package of the universe has one version
\* and one source, so the version requirement of a declaration is met and
\* the source comparison between several candidates is never needed.
FindDeclared(krate, rdep, dk) ==
    LET hit(i) ==
            LET dep == krate.dependencies[i]
                dname == IF dep.rename # "" THEN dep.rename ELSE dep.name
            IN /\ dk.kind = dep.kind
               /\ (dep_names_match(dname, rdep.name) \/ KidName(rdep.pkg) = dname)
               /\ dk.cfg = dep.target
    IN IF \E i \in DOMAIN krate.dependencies : hit(i)
       THEN CHOOSE i \in DOMAIN krate.dependencies :
                hit(i) /\ \A j \in 1..(i - 1) : ~hit(j)
       ELSE 0

\* EdgeOf that keeps the variants of optional declarations in every pass
EdgeOfOptionalToo(c, krate, rdep, rdep_node, dk, is_in_workspace, strong) ==
    IF KindIgnored(c.ignore_kinds, dk.kind, is_in_workspace) THEN <<>>
    ELSE LET di == FindDeclared(krate, rdep, dk)
         IN IF di = 0 THEN <<[kind |-> "panic", cfg |-> dk.cfg, features |-> <<>>,
                               uses_default_features |-> FALSE]>>
            ELSE LET dep == krate.dependencies[di]
                 IN IF ~TargetSurvives(dk.cfg, c.target_filters) THEN <<>>
                    ELSE <<[kind |-> dk.kind,
                            cfg |-> dk.cfg,
                            features |-> dep.features,
                            uses_default_features |->
                                dep.uses_default_features
                                /\ rdep_node.has_default_feature]>>

\* the filter_map over rdep.dep_kinds: the surviving variant of dk as a
\* one-element sequence, <<>> when it is dropped, an edge of kind "panic"
\* when the declaration cannot be found
EdgeOf(c, krate, rdep, rdep_node, dk, is_in_workspace, strong) ==
    IF KindIgnored(c.ignore_kinds, dk.kind, is_in_workspace) THEN <<>>
    ELSE LET di == FindDeclared(krate, rdep, dk)
         IN IF di = 0 THEN <<[kind |-> "panic", cfg |-> dk.cfg, features |-> <<>>,
                               uses_default_features |-> FALSE]>>
            ELSE LET dep == krate.dependencies[di]
                 IN IF dep.optional /\ ~strong THEN <<>>
                    ELSE IF ~TargetSurvives(dk.cfg, c.target_filters) THEN <<>>
                    ELSE <<[kind |-> dk.kind,
                            cfg |-> dk.cfg,
                            features |-> dep.features,
                            uses_default_features |->
                                dep.uses_default_features
                                /\ rdep_node.has_default_feature]>>

\* feature_index over a list of names; 0 marks a name that is not found
FeatureIndices(rdep_node, names) ==
    [k \in DOMAIN names |-> feature_index(rdep_node, names[k])]

RECURSIVE EdgeLoop(_, _, _, _, _)
\* `for edge in edges` for one dependency pkg, from edge i on.
\* acc = [stack, dep, visit_dep, features, panic]: visit_dep is TRUE while
\* the <<pkg, None>> item has not been pushed, features is the set still to
\* be taken (<<>> once taken or when there is none).
EdgeLoop(rdep_node, pkg, edges, i, acc) ==
    IF i > Len(edges) \/ acc.panic THEN acc
    ELSE
    LET edge == edges[i]
        take == acc.features # <<>>
        feats == IF take THEN SortInts(acc.features[1]) ELSE <<>>
        s1 == IF take
              THEN PushAll(IF acc.visit_dep THEN Push(acc.stack, <<pkg, 0>>)
                           ELSE acc.stack, pkg, feats)
              ELSE acc.stack
        v1 == acc.visit_dep /\ ~take
        dep1 == IF take THEN [acc.dep EXCEPT !.features = @ \cup acc.features[1]]
                ELSE acc.dep
        known == \E k \in DOMAIN dep1.edges :
                    dep1.edges[k].kind = edge.kind /\ dep1.edges[k].cfg = edge.cfg
        names == edge.features
                 \o (IF edge.uses_default_features THEN <<"default">> ELSE <<>>)
        idx == FeatureIndices(rdep_node, names)
        a1 == [acc EXCEPT !.stack = s1, !.visit_dep = v1, !.dep = dep1,
                          !.features = <<>>]
    IN IF known THEN EdgeLoop(rdep_node, pkg, edges, i + 1, a1)
       ELSE IF \E k \in DOMAIN idx : idx[k] = 0 THEN [a1 EXCEPT !.panic = TRUE]
       ELSE EdgeLoop(rdep_node, pkg, edges, i + 1,
                [a1 EXCEPT
                    !.stack = PushAll(IF v1 THEN Push(s1, <<pkg, 0>>) ELSE s1,
                                      pkg, idx),
                    !.visit_dep = FALSE,
                    !.dep = [dep1 EXCEPT !.edges = Append(@,
                                [kind |-> edge.kind, cfg |-> edge.cfg,
                                 features |-> idx])]])

RECURSIVE DepLoop(_, _, _, _, _, _, _, _)
\* `for (pkg, (rdep, features)) in deps`, from the i-th key on.
\* acc = [stack, pn_deps, panic]
DepLoop(c, nodes, krate, is_in_workspace, deps, keys, i, acc) ==
    IF i > Len(keys) \/ acc.panic THEN acc
    ELSE
    LET pkg == keys[i]
        rdep == deps[pkg].ndep
        strong == deps[pkg].some
        ri == NodeIndex(nodes, pkg)
        next(a) == DepLoop(c, nodes, krate, is_in_workspace, deps, keys, i + 1, a)
    IN IF ri = 0 THEN [acc EXCEPT !.panic = TRUE]
       ELSE
       LET rdep_node == nodes[ri]
           raw == [k \in DOMAIN rdep.dep_kinds |->
                     EdgeOf(c, krate, rdep, rdep_node, rdep.dep_kinds[k],
                            is_in_workspace, strong)]
           edges == Compact(raw)
       IN IF \E k \in DOMAIN raw : raw[k] # <<>> /\ raw[k][1].kind = "panic"
          THEN [acc EXCEPT !.panic = TRUE]
          ELSE IF edges = <<>> THEN next(acc)
          ELSE
          LET dep0 == IF pkg \in DOMAIN acc.pn_deps THEN acc.pn_deps[pkg]
                      ELSE [edges |-> <<>>, features |-> {}]
              r == EdgeLoop(rdep_node, pkg, edges, 1,
                      [stack |-> acc.stack, dep |-> dep0, visit_dep |-> TRUE,
                       features |-> IF strong THEN <<deps[pkg].feats>> ELSE <<>>,
                       panic |-> FALSE])
          IN next([stack |-> r.stack,
                   pn_deps |-> Put(acc.pn_deps, pkg, r.dep),
                   panic |-> r.panic])

\* IsExcluded with all() in the place of any()
IsExcludedByAll(c, krate) ==
    c.exclude # {} /\ \A exc \in c.exclude : PkgSpecMatches(exc, krate)

\* exclude.iter().any(|exc| exc.matches(krate))
IsExcluded(c, krate) == \E exc \in c.exclude : PkgSpecMatches(exc, krate)

\* the capability arm and the None arm (`if let Some(feature) = feature
\* ... else ...`): [stack, pending_weak, deps, panic], with deps the local
\* `deps` map. kf0 and pn0 are the package's map entries as found or made,
\* rest the worklist after the pop.
FeatureArm(nodes, rnode, krate, pid, feature, rest, kf0, pn0) ==
    IF feature = 0
    THEN [stack |-> rest,
          pending_weak |-> kf0.pending_weak,
          deps |-> [k \in {rnode.deps[i].pkg : i \in DOMAIN rnode.deps} |->
                      [ndep |-> rnode.deps[CHOOSE i \in DOMAIN rnode.deps :
                                              rnode.deps[i].pkg = k],
                       some |-> FALSE, feats |-> {}]],
          panic |-> FALSE]
    ELSE IF rnode.features[feature] \notin DOMAIN krate.features
    THEN [stack |-> IF ~kf0.filled_non_optional THEN Push(rest, <<pid, 0>>)
                    ELSE rest,
          pending_weak |-> kf0.pending_weak,
          deps |-> EmptyMap,
          panic |-> FALSE]
    ELSE SubFeatureLoop(nodes, rnode, pid, pn0.deps,
             krate.features[rnode.features[feature]], 1,
             [stack |-> IF ~kf0.filled_non_optional THEN Push(rest, <<pid, 0>>)
                        ELSE rest,
              pending_weak |-> kf0.pending_weak,
              deps |-> EmptyMap, panic |-> FALSE])

\* the state after the loop body, from what the arm (sub) and the loop over
\* deps (out) left
VisitResult(s, pid, feature, kf0, pn0, sub, out) ==
    [visit_stack |-> out.stack,
     feature_edge_map |->
        Put(s.feature_edge_map, pid,
            IF feature # 0
            THEN [kf0 EXCEPT !.actual = @ \cup {feature},
                             !.pending_weak = sub.pending_weak]
            ELSE [kf0 EXCEPT !.filled_non_optional = TRUE]),
     dep_edge_map |-> Put(s.dep_edge_map, pid, [pn0 EXCEPT !.deps = out.pn_deps]),
     expanded |-> Append(s.expanded, <<pid, feature>>),
     panic |-> out.panic]

\* the loop over deps after the arm
VisitDeps(c, nodes, krate, is_in_workspace, s, pid, feature, kf0, pn0, sub) ==
    VisitResult(s, pid, feature, kf0, pn0, sub,
        IF sub.panic
        THEN [stack |-> sub.stack, pn_deps |-> pn0.deps, panic |-> TRUE]
        ELSE DepLoop(c, nodes, krate, is_in_workspace, sub.deps,
                     SortInts(DOMAIN sub.deps), 1,
                     [stack |-> sub.stack, pn_deps |-> pn0.deps, panic |-> FALSE]))

\* the loop body for a package that is not excluded, with its map entries
VisitKrate(c, nodes, rnode, krate, is_in_workspace, s, pid, feature, rest, kf0, pn0) ==
    VisitDeps(c, nodes, krate, is_in_workspace, s, pid, feature, kf0, pn0,
              FeatureArm(nodes, rnode, krate, pid, feature, rest, kf0, pn0))

\* the loop body from the exclusion test on, for the resolution node and the
\* package record found at krate_index
VisitIndexed(m, c, nodes, rnode, krate, s, pid, feature, rest) ==
    IF IsExcluded(c, krate)
    THEN [s EXCEPT !.visit_stack = rest]
    ELSE VisitKrate(c, nodes, rnode, krate, pid \in m.workspace_members,
                    s, pid, feature, rest,
                    IF pid \in DOMAIN s.feature_edge_map
                    THEN s.feature_edge_map[pid]
                    ELSE NewKrateFeatures(rnode, krate, pid),
                    IF pid \in DOMAIN s.dep_edge_map
                    THEN s.dep_edge_map[pid]
                    ELSE [is_root |-> pid \in Roots(m, c), deps |-> EmptyMap])

\* the loop body for the popped item <<pid, feature>>
VisitItem(m, c, nodes, packages, s, pid, feature, rest, krate_index) ==
    IF check(s.feature_edge_map, pid, feature)
    THEN [s EXCEPT !.visit_stack = rest]
    ELSE IF krate_index = 0 \/ krate_index > Len(packages)
    THEN [s EXCEPT !.visit_stack = rest, !.panic = TRUE]
    ELSE VisitIndexed(m, c, nodes, nodes[krate_index], packages[krate_index],
                      s, pid, feature, rest)

\* the pop, and the search of the package in nodes
VisitPopped(m, c, nodes, packages, s, pid, feature) ==
    VisitItem(m, c, nodes, packages, s, pid, feature,
              SubSeq(s.visit_stack, 1, Len(s.visit_stack) - 1),
              NodeIndex(nodes, pid))

\* what the loop body leaves behind for one popped work item.
\* s = [visit_stack, feature_edge_map, dep_edge_map, expanded, panic]
VisitStep(m, c, s) ==
    VisitPopped(m, c, Nodes(m), Packages(m), s,
                s.visit_stack[Len(s.visit_stack)][1],
                s.visit_stack[Len(s.visit_stack)][2])

----------------------------------------------------------------------------
(* The post-pass: materialising the graph. g = [nodes, edges] *)

\* the `get` closure: the node of package kid (feature = <<>>) or of its
\* capability feature[1]; 0 for None
get(g, kend, kid, feature) ==
    LET hit(i) ==
            IF feature # <<>>
            THEN /\ g.nodes[i].type = "Feature"
                 /\ g.nodes[g.nodes[i].krate_index].type = "Krate"
                 /\ g.nodes[g.nodes[i].krate_index].id = kid
                 /\ g.nodes[i].name = feature[1]
            ELSE g.nodes[i].type = "Krate" /\ g.nodes[i].id = kid
        span == IF feature # <<>> THEN (kend + 1)..Len(g.nodes) ELSE 1..kend
    IN IF \E i \in span : hit(i)
       THEN CHOOSE i \in span : hit(i) /\ \A j \in span : j < i => ~hit(j)
       ELSE 0

\* AddEdge with the endpoints swapped
AddEdgeSwapped(g, src, dst, edge) ==
    [g EXCEPT !.edges = Append(@, [src |-> dst, dst |-> src, edge |-> edge])]

\* graph.add_edge
AddEdge(g, src, dst, edge) ==
    [g EXCEPT !.edges = Append(@, [src |-> src, dst |-> dst, edge |-> edge])]

FeatureEdge == [type |-> "Feature"]

\* the capabilities published on the node of package id
PublishedFeatures(nodes, fem, pn, id) ==
    LET rnode == nodes[NodeIndex(nodes, id)]
    IN IF pn.is_root THEN Range(rnode.features)
       ELSE {rnode.features[k] : k \in fem[id].actual}

\* InsertPackage that drops a package without a call of on_filter
InsertPackageSilently(nodes, fem, dem, pkg, st) ==
    IF pkg.id \in DOMAIN dem
    THEN [st EXCEPT !.g.nodes = Append(@,
            [type |-> "Krate", id |-> pkg.id, krate |-> pkg.name,
             features |-> PublishedFeatures(nodes, fem, dem[pkg.id], pkg.id)])]
    ELSE st

\* one pass of `for (id, krate) in packages`: the package becomes a node or
\* is handed to on_filter. st = [g, filtered]
InsertPackage(nodes, fem, dem, pkg, st) ==
    IF pkg.id \in DOMAIN dem
    THEN [st EXCEPT !.g.nodes = Append(@,
            [type |-> "Krate", id |-> pkg.id, krate |-> pkg.name,
             features |-> PublishedFeatures(nodes, fem, dem[pkg.id], pkg.id)])]
    ELSE [st EXCEPT !.filtered = Append(@, pkg.id)]

\* the `attach` closure: an edge from srcid to the capability node feat of
\* the dependency dep_id, created if it is not there yet
attach(g, kend, srcid, dep_id, target_krate, feat, edge) ==
    LET found == get(g, kend, dep_id, <<feat>>)
        g1 == IF found # 0 THEN g
              ELSE [g EXCEPT !.nodes = Append(@,
                        [type |-> "Feature", krate_index |-> target_krate,
                         name |-> feat])]
        feat_node == IF found # 0 THEN found ELSE Len(g1.nodes)
    IN AddEdge(g1, srcid, feat_node, edge)

RECURSIVE AttachAll(_, _, _, _, _, _, _, _)
\* attach for the capability indices feats[i..], with the same edge weight
AttachAll(g, kend, srcid, dep_id, target_krate, rnode, feats, edge) ==
    IF feats = <<>> THEN g
    ELSE AttachAll(attach(g, kend, srcid, dep_id, target_krate,
                          rnode.features[Head(feats)], edge),
                   kend, srcid, dep_id, target_krate, rnode, Tail(feats), edge)

RECURSIVE AttachEdges(_, _, _, _, _, _, _, _)
\* `for edge in dep.edges`: DepFeature edges for the capabilities of the
\* variant, or one Dep edge when it has none
AttachEdges(g, kend, srcid, dep_id, target_krate, rnode, edges, i) ==
    IF i > Len(edges) THEN g
    ELSE
    LET edge == edges[i]
        g1 == AttachAll(g, kend, srcid, dep_id, target_krate, rnode, edge.features,
                  [type |-> "DepFeature", kind |-> edge.kind, cfg |-> edge.cfg])
        g2 == IF edge.features = <<>>
              THEN AddEdge(g1, srcid, target_krate,
                       [type |-> "Dep", kind |-> edge.kind, cfg |-> edge.cfg])
              ELSE g1
    IN AttachEdges(g2, kend, srcid, dep_id, target_krate, rnode, edges, i + 1)

RECURSIVE AttachDeps(_, _, _, _, _, _, _)
\* `for (dep_id, dep) in pn.deps` for the package node srcid
AttachDeps(g, kend, nodes, srcid, pn_deps, keys, i) ==
    IF i > Len(keys) THEN g
    ELSE
    LET dep_id == keys[i]
        dep == pn_deps[dep_id]
        target_krate == get(g, kend, dep_id, <<>>)
        rnode == nodes[NodeIndex(nodes, dep_id)]
        g1 == AttachEdges(g, kend, srcid, dep_id, target_krate, rnode, dep.edges, 1)
        g2 == AttachAll(g1, kend, srcid, dep_id, target_krate, rnode,
                        SortInts(dep.features), FeatureEdge)
    IN AttachDeps(IF target_krate = 0 THEN g ELSE g2,
                  kend, nodes, srcid, pn_deps, keys, i + 1)

\* the body of `while let Some(feat) = feature_stack.pop()` for the package
\* pid, whose node is kind. st = [g, feature_stack, enabled]
RECURSIVE SubFeatureWire(_, _, _, _, _, _, _)
SubFeatureWire(st, kend, pid, kind, src_id, sub_features, i) ==
    IF i > Len(sub_features) THEN st
    ELSE
    LET sub_feat == sub_features[i]
        next(x) == SubFeatureWire(x, kend, pid, kind, src_id, sub_features, i + 1)
    IN IF sub_feat.kid # pid /\ get(st.g, kend, sub_feat.kid, <<>>) = 0
       THEN next(st)
       ELSE
       LET feat_name == IF sub_feat.name = "Krate" THEN <<>> ELSE <<sub_feat.str>>
           found == get(st.g, kend, sub_feat.kid, feat_name)
           new_name == IF feat_name # <<>> THEN feat_name[1]
                       ELSE KidName(sub_feat.kid)
           fresh == new_name \notin st.g.nodes[kind].features
           st1 == IF found # 0 THEN st
                  ELSE [st EXCEPT
                          !.g.nodes = Append(
                              IF fresh
                              THEN [@ EXCEPT ![kind].features = @ \cup {new_name}]
                              ELSE @,
                              [type |-> "Feature", krate_index |-> kind,
                               name |-> new_name]),
                          !.feature_stack = IF fresh THEN Append(@, new_name)
                                            ELSE @]
           target_id == IF found # 0 THEN found ELSE Len(st1.g.nodes)
       IN next([st1 EXCEPT !.g = AddEdge(@, src_id, target_id, FeatureEdge)])

\* Vec::swap_remove
swap_remove(v, i) ==
    LET last == Len(v)
    IN SubSeq([v EXCEPT ![i] = v[last]], 1, last - 1)

\* the `get_or_insert` closure: [g, id]
get_or_insert(g, kend, kid, feature) ==
    LET node_id == get(g, kend, kid, <<feature>>)
    IN IF node_id # 0 THEN [g |-> g, id |-> node_id]
       ELSE [g |-> [g EXCEPT !.nodes = Append(@,
                       [type |-> "Feature",
                        krate_index |-> get(g, kend, kid, <<>>),
                        name |-> feature])],
             id |-> Len(g.nodes) + 1]

\* one pass of the while loop
FeaturePopStep(st, kend, pid, kind) ==
    LET n == Len(st.feature_stack)
        feat == st.feature_stack[n]
        popped == [st EXCEPT !.feature_stack = SubSeq(@, 1, n - 1)]
        hit(i) == st.enabled[i][1] = feat
    IN IF ~\E i \in DOMAIN st.enabled : hit(i) THEN popped
       ELSE
       LET pos == CHOOSE i \in DOMAIN st.enabled :
                      hit(i) /\ \A j \in 1..(i - 1) : ~hit(j)
           sub_features == st.enabled[pos][2]
           gi == get_or_insert(st.g, kend, pid, feat)
           st1 == [popped EXCEPT !.enabled = swap_remove(@, pos),
                                 !.g = AddEdge(gi.g, gi.id, kind, FeatureEdge)]
       IN SubFeatureWire(st1, kend, pid, kind, gi.id, sub_features, 1)

----------------------------------------------------------------------------
(* The reports the builder is run on.                                      *)
(*                                                                         *)
(* Three packages: a (Kid 1, always a workspace member), b (Kid 2) and d   *)
(* (Kid 3).  a may depend on b and on d, b may depend on d.  d declares    *)
(* the capabilities default = [g], f and g.  A report is built from a      *)
(* record of knobs; every report lists a package record for exactly the    *)
(* packages that have a resolution node, as cargo does.                    *)
(***************************************************************************)

Decl(name, kind, optional, target, features, uses_default) ==
    [name |-> name, rename |-> "", kind |-> kind, optional |-> optional,
     target |-> target, features |-> features,
     uses_default_features |-> uses_default]

Triple(t) == [form |-> "triple", triple |-> t]

\* a's declarations of d
DeclsAD(ad) ==
    CASE ad = "none" -> <<>>
      [] ad \in {"opt", "unlisted"} ->
            <<Decl("d", "Normal", TRUE, NoCfg, <<>>, TRUE)>>
      [] ad = "req" -> <<Decl("d", "Normal", FALSE, NoCfg, <<>>, TRUE)>>
      [] ad = "optdev" ->
            <<Decl("d", "Normal", TRUE, NoCfg, <<>>, FALSE),
              Decl("d", "Dev", FALSE, NoCfg, <<>>, FALSE)>>
      [] ad = "linux" ->
            <<Decl("d", "Normal", FALSE, Triple("linux"), <<"g">>, FALSE)>>

\* b's declarations of d
DeclsBD(bd) ==
    CASE bd = "none" -> <<>>
      [] bd = "normal" -> <<Decl("d", "Normal", FALSE, NoCfg, <<>>, TRUE)>>
      [] bd = "build" -> <<Decl("d", "Build", FALSE, NoCfg, <<"f">>, FALSE)>>
      [] bd = "windows" ->
            <<Decl("d", "Normal", FALSE, Triple("windows"), <<>>, FALSE)>>

\* a's declarations of b
DeclsAB(ab) ==
    IF ab = "none" THEN <<>> ELSE <<Decl("b", ab, FALSE, NoCfg, <<>>, FALSE)>>

Weak(k, f) == <<k, "?/", f>>
Strong(k, f) == <<k, "/", f>>
DepMarker(k) == <<"dep:", k>>
Local(f) == <<f>>

\* a's capability declarations and the capabilities the resolver reports
\* for a: [declared, resolved]
FeaturesA(af) ==
    CASE af = "none" -> [declared |-> EmptyMap, resolved |-> {}]
      [] af = "weak" ->
            [declared |-> [n \in {"x"} |-> <<Weak("d", "f")>>], resolved |-> {"x"}]
      [] af = "dep_weak" ->
            [declared |-> [n \in {"x"} |-> <<DepMarker("d"), Weak("d", "f")>>],
             resolved |-> {"x"}]
      [] af = "weak_dep" ->
            [declared |-> [n \in {"x"} |-> <<Weak("d", "f"), DepMarker("d")>>],
             resolved |-> {"x"}]
      [] af = "strong" ->
            [declared |-> [n \in {"x"} |-> <<Strong("d", "f")>>], resolved |-> {"x"}]
      [] af = "xweak_ydep" ->
            [declared |-> [n \in {"x", "y"} |->
                IF n = "x" THEN <<Weak("d", "f")>> ELSE <<DepMarker("d")>>],
             resolved |-> {"x", "y"}]
      [] af = "xdep_yweak" ->
            [declared |-> [n \in {"x", "y"} |->
                IF n = "x" THEN <<DepMarker("d")>> ELSE <<Weak("d", "f")>>],
             resolved |-> {"x", "y"}]
      [] af = "local" ->
            [declared |-> [n \in {"x", "y"} |->
                IF n = "x" THEN <<Local("y")>> ELSE <<Strong("d", "g")>>],
             resolved |-> {"x", "y"}]
      [] af = "stale" ->
            [declared |-> [n \in {"x"} |-> <<Local("g")>>], resolved |-> {"x"}]
      [] af = "weak_strong" ->
            [declared |-> [n \in {"x"} |-> <<Weak("d", "f"), Strong("d", "g")>>],
             resolved |-> {"x"}]
      [] af = "strong_weak" ->
            [declared |-> [n \in {"x"} |-> <<Strong("d", "g"), Weak("d", "f")>>],
             resolved |-> {"x"}]
      [] af = "implicit" ->
            [declared |-> [n \in {"d", "x"} |->
                IF n = "d" THEN <<DepMarker("d")>> ELSE <<Weak("d", "f")>>],
             resolved |-> {"d", "x"}]
      [] af = "weak_named" ->
            [declared |-> [n \in {"d", "x"} |->
                IF n = "d" THEN <<DepMarker("d")>> ELSE <<Weak("d", "f")>>],
             resolved |-> {"x"}]

\* d's capability declarations
FeaturesD == [n \in {"default", "f", "g"} |->
                IF n = "default" THEN <<Local("g")>> ELSE <<>>]

\* the capabilities the resolver reports for d
ResolvedD(dres) ==
    CASE dres = "full" -> {"default", "f", "g"}
      [] dres = "nodefault" -> {"f", "g"}
      [] dres = "nof" -> {"default", "g"}

WorkspaceOf(ws) ==
    CASE ws = 1 -> [members |-> {1}, root |-> 1]
      [] ws = 2 -> [members |-> {1, 2}, root |-> 0]
      [] ws = 3 -> [members |-> {1, 2}, root |-> 1]
      [] ws = 4 -> [members |-> {1, 3}, root |-> 0]
      [] ws = 5 -> [members |-> {}, root |-> 0]

Pkg(id, features, dependencies) ==
    [id |-> id, name |-> KidName(id), version |-> "1.0.0",
     source |-> <<"registry", "+", "index">>,
     manifest_path |-> <<"ws", KidName(id), "Cargo.toml">>,
     features |-> features, dependencies |-> dependencies]

\* the resolved dependency of a package on pkg, from its declarations
NodeDepOf(pkg, decls) ==
    [name |-> KidName(pkg), pkg |-> pkg,
     dep_kinds |-> [i \in DOMAIN decls |->
                       [kind |-> decls[i].kind, cfg |-> decls[i].target]]]

\* the sequence in which a report lists a set of records: by descending
\* Kid. cargo orders its lists by the identifier string, whose order is not
\* the (name, version, source) order of Kid, so the builder sorts them
\* itself.
AsList(S) ==
    LET up == SortById(S)
    IN [i \in 1..Len(up) |-> up[Len(up) + 1 - i]]

MkReport(k) ==
    LET w == WorkspaceOf(k.ws)
        hasB == k.ab # "none" \/ 2 \in w.members
        hasD == 3 \in w.members \/ k.ad # "none" \/ (hasB /\ k.bd # "none")
        fa == FeaturesA(k.af)
        pa == Pkg(1, fa.declared, DeclsAB(k.ab) \o DeclsAD(k.ad))
        pb == Pkg(2, EmptyMap, DeclsBD(k.bd))
        pd == Pkg(3, FeaturesD, <<>>)
        na == [id |-> 1,
               deps |-> (IF k.ab = "none" THEN <<>>
                         ELSE <<NodeDepOf(2, DeclsAB(k.ab))>>)
                        \o (IF k.ad \in {"none", "unlisted"} THEN <<>>
                            ELSE <<NodeDepOf(3, DeclsAD(k.ad))>>),
               features |-> SortNames(fa.resolved)]
        nb == [id |-> 2,
               deps |-> IF k.bd = "none" THEN <<>>
                        ELSE <<NodeDepOf(3, DeclsBD(k.bd))>>,
               features |-> <<>>]
        nd == [id |-> 3, deps |-> <<>>, features |-> SortNames(ResolvedD(k.dres))]
    IN [resolve |-> k.resolve,
        root |-> w.root,
        workspace_root |-> <<"ws">>,
        workspace_members |-> w.members,
        packages |-> AsList({pa} \cup (IF hasB THEN {pb} ELSE {})
                                 \cup (IF hasD THEN {pd} ELSE {})),
        nodes |-> AsList({na} \cup (IF hasB THEN {nb} ELSE {})
                              \cup (IF hasD THEN {nd} ELSE {}))]

Knobs(wss, ads, afs, abs, bds, dress) ==
    [ws : wss, ad : ads, af : afs, ab : abs, bd : bds, dres : dress,
     resolve : {TRUE}]

AllFeaturesA == {"none", "weak", "dep_weak", "weak_dep", "strong", "xweak_ydep",
                 "xdep_yweak", "local", "stale", "weak_strong", "strong_weak",
                 "implicit", "weak_named"}

\* the knob records of the reports
KnobSet ==
    \* capability references of a against an optional or required d
    Knobs({1}, {"opt", "req", "optdev", "unlisted"}, AllFeaturesA,
          {"Normal"}, {"none", "normal"}, {"full"})
    \cup
    \* the same with d a workspace member
    Knobs({4}, {"opt", "unlisted"}, {"weak", "dep_weak", "weak_dep", "strong"},
          {"Normal"}, {"none"}, {"full"})
    \cup
    \* dependency kinds, platforms and workspace shapes
    Knobs({1, 2, 3, 4}, {"none", "req", "linux"}, {"none"},
          {"none", "Normal", "Dev"}, {"none", "normal", "build", "windows"},
          {"full"})
    \cup
    \* resolver lists of d without default or without f
    Knobs({1}, {"opt", "req"}, {"strong", "weak", "weak_strong"},
          {"Normal"}, {"normal", "build"}, {"nodefault", "nof"})
    \cup
    \* a report that names no workspace member and no root
    Knobs({5}, {"req"}, {"none"}, {"Normal"}, {"normal"}, {"full"})
    \cup
    \* a report without resolution data
    [ws : {1}, ad : {"req"}, af : {"none"}, ab : {"Normal"}, bd : {"none"},
     dres : {"full"}, resolve : {FALSE}]

AllMetadata == {MkReport(k) : k \in KnobSet}

----------------------------------------------------------------------------
(* The state machine *)

\* how many configuration choices a builder may accumulate
MaxConfig == 2

\* the Builder's fields as the build reads them
Cfg == [exclude |-> exclude, ignore_kinds |-> ignore_kinds,
        target_filters |-> target_filters, workspace |-> workspace,
        workspace_filters |-> workspace_filters]

\* number of (kind, scope) flags set in a mask
FlagCount(mask_bits) ==
    Cardinality({<<k, w>> \in DepKinds \X BOOLEAN : KindIgnored(mask_bits, k, w)})

ConfigWeight(ex, ik, tf) == Cardinality(ex) + FlagCount(ik) + Len(tf)

\* how many threads share one CachingIndex
MaxThreads == 2

Threads == 1..MaxThreads

\* a thread that has made no call yet
IdleThread == [pc |-> "idle", op |-> "none", name |-> "", version |-> 0,
               invoked |-> 0, served |-> "", calls |-> 0]

\* before CachingIndex::new
NoIndexYet == [edition |-> 0, cache |-> [k \in {} |-> 0], readers |-> {},
               writer |-> 0]

NoMetadata == [resolve |-> FALSE, root |-> 0, workspace_members |-> {},
               workspace_root |-> <<>>,
               packages |-> <<>>, nodes |-> <<>>]

EmptyGraph == [nodes |-> <<>>, edges |-> <<>>]

Graph == [nodes |-> graph_nodes, edges |-> graph_edges]

\* Builder::new()
Init ==
    /\ md = NoMetadata
    /\ exclude = {}
    /\ ignore_kinds = 0
    /\ ignore_calls = {}
    /\ target_filters = <<>>
    /\ workspace = FALSE
    /\ workspace_filters = <<>>
    /\ given_paths = <<>>
    /\ package_ids = <<>>
    /\ kids = <<>>
    /\ matched = <<>>
    /\ caching_index = NoIndexYet
    /\ threads = [t \in Threads |-> IdleThread]
    /\ pc = "config"
    /\ visit_stack = <<>>
    /\ feature_edge_map = EmptyMap
    /\ dep_edge_map = EmptyMap
    /\ graph_nodes = <<>>
    /\ graph_edges = <<>>
    /\ krates_end = 0
    /\ cursor = 0
    /\ feature_stack = <<>>
    /\ enabled = <<>>
    /\ filtered = <<>>
    /\ expanded = <<>>
    /\ result = "running"

RootVars == <<workspace, workspace_filters, given_paths>>

KidVars == <<package_ids, kids>>

MatchVars == <<matched>>

IndexVars == <<caching_index, threads>>

BuildVars == <<md, pc, visit_stack, feature_edge_map, dep_edge_map, graph_nodes,
               graph_edges, krates_end, cursor, feature_stack, enabled, filtered,
               expanded, result>>

\* Builder::ignore_kind
IgnoreKind(kind, scope) ==
    /\ pc = "config"
    /\ LET new == IgnoreKindMask(ignore_kinds, kind, scope)
       IN /\ new # ignore_kinds
          /\ ConfigWeight(exclude, new, target_filters) <= MaxConfig
          /\ ignore_kinds' = new
    /\ ignore_calls' = ignore_calls \cup {<<kind, scope>>}
    /\ UNCHANGED <<exclude, target_filters>>
    /\ UNCHANGED RootVars
    /\ UNCHANGED BuildVars
    /\ UNCHANGED KidVars
    /\ UNCHANGED MatchVars
    /\ UNCHANGED IndexVars

\* Builder::exclude with one package specification
Exclude(spec) ==
    /\ pc = "config"
    /\ spec \notin exclude
    /\ ConfigWeight(exclude \cup {spec}, ignore_kinds, target_filters) <= MaxConfig
    /\ exclude' = exclude \cup {spec}
    /\ UNCHANGED <<ignore_kinds, ignore_calls, target_filters>>
    /\ UNCHANGED RootVars
    /\ UNCHANGED BuildVars
    /\ UNCHANGED KidVars
    /\ UNCHANGED MatchVars
    /\ UNCHANGED IndexVars

\* Builder::include_targets with one triple
IncludeTargets(triple) ==
    /\ pc = "config"
    /\ target_filters = <<>>
    /\ ConfigWeight(exclude, ignore_kinds, <<triple>>) <= MaxConfig
    /\ target_filters' = Append(target_filters, [triple |-> triple, features |-> <<>>])
    /\ UNCHANGED <<exclude, ignore_kinds, ignore_calls>>
    /\ UNCHANGED RootVars
    /\ UNCHANGED BuildVars
    /\ UNCHANGED KidVars
    /\ UNCHANGED MatchVars
    /\ UNCHANGED IndexVars

\* Builder::workspace
Workspace(flag) ==
    /\ pc = "config"
    /\ workspace' = flag
    /\ UNCHANGED <<exclude, ignore_kinds, ignore_calls, target_filters,
                   workspace_filters, given_paths>>
    /\ UNCHANGED BuildVars
    /\ UNCHANGED KidVars
    /\ UNCHANGED MatchVars
    /\ UNCHANGED IndexVars

\* how many paths a builder may be given
MaxFilters == 2

\* Path::canonicalize on the machine that builds: the path as resolved
\* there. "link" is a symbolic link to the directory of b.
canonicalize(path) ==
    IF path = <<"link">> THEN <<"ws", "b">> ELSE path

\* the path include_workspace_crates stores for a given one; resolved tells
\* whether canonicalize succeeded
StoredPath(path, resolved) ==
    LET p == IF resolved THEN canonicalize(path) ELSE path
    IN IF ~ends_with_manifest(p) THEN Append(p, "Cargo.toml") ELSE p

\* Builder::include_workspace_crates with one path
IncludeWorkspaceCrates(path, resolved) ==
    /\ pc = "config"
    /\ Len(workspace_filters) < MaxFilters
    /\ workspace_filters' = Append(workspace_filters, StoredPath(path, resolved))
    /\ given_paths' = Append(given_paths, path)
    /\ UNCHANGED <<exclude, ignore_kinds, ignore_calls, target_filters, workspace>>
    /\ UNCHANGED BuildVars
    /\ UNCHANGED KidVars
    /\ UNCHANGED MatchVars
    /\ UNCHANGED IndexVars

ConfigVars == <<exclude, ignore_kinds, ignore_calls, target_filters, workspace,
                workspace_filters, given_paths>>

\* build_with_metadata up to the first pass of the worklist loop
BuildWithMetadata(m) ==
    /\ pc = "config"
    /\ md' = m
    /\ IF ~m.resolve
       THEN /\ pc' = "done"
            /\ result' = "NoResolveGraph"
            /\ visit_stack' = visit_stack
       ELSE /\ pc' = "visit"
            /\ result' = result
            /\ visit_stack' = SeedItems(Nodes(m), SortInts(Roots(m, Cfg)), 1)
    /\ UNCHANGED <<feature_edge_map, dep_edge_map, graph_nodes, graph_edges,
                   krates_end, cursor, feature_stack, enabled, filtered, expanded>>
    /\ UNCHANGED ConfigVars
    /\ UNCHANGED KidVars
    /\ UNCHANGED MatchVars
    /\ UNCHANGED IndexVars

\* the assignments one pass of the worklist loop makes
VisitAssign(s) ==
    /\ visit_stack' = s.visit_stack
    /\ feature_edge_map' = s.feature_edge_map
    /\ dep_edge_map' = s.dep_edge_map
    /\ expanded' = s.expanded
    /\ pc' = IF s.panic THEN "done" ELSE pc
    /\ result' = IF s.panic THEN "panic" ELSE result

\* one pass of the worklist loop
VisitPop ==
    /\ pc = "visit"
    /\ visit_stack # <<>>
    /\ VisitAssign(VisitStep(md, Cfg,
                    [visit_stack |-> visit_stack,
                     feature_edge_map |-> feature_edge_map,
                     dep_edge_map |-> dep_edge_map,
                     expanded |-> expanded, panic |-> FALSE]))
    /\ UNCHANGED <<md, graph_nodes, graph_edges, krates_end, cursor, feature_stack,
                   enabled, filtered>>
    /\ UNCHANGED ConfigVars
    /\ UNCHANGED KidVars
    /\ UNCHANGED MatchVars
    /\ UNCHANGED IndexVars

\* VisitDone without the sanity check
VisitDoneUnchecked ==
    /\ pc = "visit"
    /\ visit_stack = <<>>
    /\ pc' = "nodes" /\ result' = result /\ cursor' = 1
    /\ UNCHANGED <<md, visit_stack, feature_edge_map, dep_edge_map, graph_nodes,
                   graph_edges, krates_end, feature_stack, enabled, filtered,
                   expanded>>
    /\ UNCHANGED ConfigVars
    /\ UNCHANGED KidVars
    /\ UNCHANGED MatchVars
    /\ UNCHANGED IndexVars

\* the worklist is empty: the sanity check on dep_edge_map
VisitDone ==
    /\ pc = "visit"
    /\ visit_stack = <<>>
    /\ IF DOMAIN dep_edge_map = {}
       THEN pc' = "done" /\ result' = "NoRootKrates" /\ cursor' = cursor
       ELSE pc' = "nodes" /\ result' = result /\ cursor' = 1
    /\ UNCHANGED <<md, visit_stack, feature_edge_map, dep_edge_map, graph_nodes,
                   graph_edges, krates_end, feature_stack, enabled, filtered,
                   expanded>>
    /\ UNCHANGED ConfigVars
    /\ UNCHANGED KidVars
    /\ UNCHANGED MatchVars
    /\ UNCHANGED IndexVars

\* one pass of `for (id, krate) in packages`; after the last one krates_end
\* is taken and the edge loop starts
InsertNode ==
    /\ pc = "nodes"
    /\ LET packages == Packages(md)
           st == InsertPackage(Nodes(md), feature_edge_map, dep_edge_map,
                               packages[cursor],
                               [g |-> Graph, filtered |-> filtered])
           last == cursor = Len(packages)
       IN /\ graph_nodes' = st.g.nodes
          /\ filtered' = st.filtered
          /\ cursor' = IF last THEN 1 ELSE cursor + 1
          /\ pc' = IF last THEN "deps" ELSE pc
          /\ krates_end' = IF last THEN Len(st.g.nodes) ELSE krates_end
    /\ UNCHANGED <<md, visit_stack, feature_edge_map, dep_edge_map, graph_edges,
                   feature_stack, enabled, expanded, result>>
    /\ UNCHANGED ConfigVars
    /\ UNCHANGED KidVars
    /\ UNCHANGED MatchVars
    /\ UNCHANGED IndexVars

\* one pass of `for srcind in 0..graph.node_count()`
AttachDepEdges ==
    /\ pc = "deps"
    /\ LET pid == graph_nodes[cursor].id
           g == IF pid \in DOMAIN dep_edge_map
                THEN AttachDeps(Graph, krates_end, Nodes(md), cursor,
                                dep_edge_map[pid].deps,
                                SortInts(DOMAIN dep_edge_map[pid].deps), 1)
                ELSE Graph
           last == cursor = krates_end
       IN /\ graph_nodes' = g.nodes
          /\ graph_edges' = g.edges
          /\ dep_edge_map' = Del(dep_edge_map, pid)
          /\ cursor' = IF last THEN 0 ELSE cursor + 1
          /\ pc' = IF last THEN "feats" ELSE pc
    /\ UNCHANGED <<md, visit_stack, feature_edge_map, krates_end, feature_stack,
                   enabled, filtered, expanded, result>>
    /\ UNCHANGED ConfigVars
    /\ UNCHANGED KidVars
    /\ UNCHANGED MatchVars
    /\ UNCHANGED IndexVars

\* the keys of feature_edge_map in iteration order
FeatureKeys == SortInts(DOMAIN feature_edge_map)

\* `for (pid, features) in feature_edge_map`: the next package whose
\* capabilities are wired, or the end of the build
FeaturesNext ==
    /\ pc = "feats"
    /\ feature_stack = <<>>
    /\ IF cursor = Len(FeatureKeys)
       THEN /\ pc' = "done"
            /\ result' = "Ok"
            /\ UNCHANGED <<cursor, feature_stack, enabled>>
       ELSE LET pid == FeatureKeys[cursor + 1]
                kind == get(Graph, krates_end, pid, <<>>)
            IN /\ cursor' = cursor + 1
               /\ pc' = pc
               /\ result' = result
               /\ IF kind = 0
                  THEN UNCHANGED <<feature_stack, enabled>>
                  ELSE /\ feature_stack' = SortNames(graph_nodes[kind].features)
                       /\ enabled' = feature_edge_map[pid].graph
    /\ UNCHANGED <<md, visit_stack, feature_edge_map, dep_edge_map, graph_nodes,
                   graph_edges, krates_end, filtered, expanded>>
    /\ UNCHANGED ConfigVars
    /\ UNCHANGED KidVars
    /\ UNCHANGED MatchVars
    /\ UNCHANGED IndexVars

\* one pass of `while let Some(feat) = feature_stack.pop()`
FeaturePop ==
    /\ pc = "feats"
    /\ feature_stack # <<>>
    /\ LET pid == FeatureKeys[cursor]
           kind == get(Graph, krates_end, pid, <<>>)
           st == FeaturePopStep([g |-> Graph, feature_stack |-> feature_stack,
                                 enabled |-> enabled], krates_end, pid, kind)
       IN /\ graph_nodes' = st.g.nodes
          /\ graph_edges' = st.g.edges
          /\ feature_stack' = st.feature_stack
          /\ enabled' = st.enabled
    /\ UNCHANGED <<md, visit_stack, feature_edge_map, dep_edge_map, krates_end,
                   cursor, filtered, expanded, pc, result>>
    /\ UNCHANGED ConfigVars
    /\ UNCHANGED KidVars
    /\ UNCHANGED MatchVars
    /\ UNCHANGED IndexVars

ExcludeSpecs == {[name |-> n, version |-> "", url |-> <<>>] : n \in {"a", "b", "d"}}

Next ==
    \/ \E k \in DepKinds, sc \in Scopes : IgnoreKind(k, sc)
    \/ \E spec \in ExcludeSpecs : Exclude(spec)
    \/ IncludeTargets("linux")
    \/ \E m \in AllMetadata : BuildWithMetadata(m)
    \/ VisitPop
    \/ VisitDone
    \/ InsertNode
    \/ AttachDepEdges
    \/ FeaturesNext
    \/ FeaturePop

Spec == Init /\ [][Next]_vars

\* the steps of a build once the report is in
BuildSteps ==
    \/ VisitPop
    \/ VisitDone
    \/ InsertNode
    \/ AttachDepEdges
    \/ FeaturesNext
    \/ FeaturePop

----------------------------------------------------------------------------
(* Root selection: builds of workspace reports under workspace() and        *)
(* include_workspace_crates()                                               *)

\* a report of the workspace ws whose package a has its manifest at the
\* workspace root (atRoot) or in its own directory
RootReport(ws, atRoot, ab) ==
    LET r == MkReport([ws |-> ws, ad |-> "req", af |-> "none", ab |-> ab,
                       bd |-> "none", dres |-> "full", resolve |-> TRUE])
    IN [r EXCEPT !.packages =
          [i \in DOMAIN r.packages |->
             IF r.packages[i].id = 1 /\ atRoot
             THEN [r.packages[i] EXCEPT !.manifest_path = <<"ws", "Cargo.toml">>]
             ELSE r.packages[i]]]

WorkspaceMetadata ==
    {RootReport(ws, atRoot, ab) :
        ws \in {2, 3, 4}, atRoot \in BOOLEAN, ab \in {"none", "Normal"}}

\* the paths a caller may hand to include_workspace_crates
GivenPaths ==
    {<<"ws">>, <<"ws", "Cargo.toml">>, <<"ws", "a">>, <<"ws", "b">>,
     <<"ws", "b", "Cargo.toml">>, <<"ws", "d", "Cargo.toml">>, <<"link">>,
     <<"ws", "g">>}

NextRoots ==
    \/ \E flag \in BOOLEAN : Workspace(flag)
    \/ \E path \in GivenPaths, resolved \in BOOLEAN :
          IncludeWorkspaceCrates(path, resolved)
    \/ \E m \in WorkspaceMetadata : BuildWithMetadata(m)
    \/ BuildSteps

SpecRoots == Init /\ [][NextRoots]_vars

----------------------------------------------------------------------------
(* Chains: builds from the single root b, which depends on a, which may     *)
(* depend on d; or from the single root r, which depends on a and on b      *)

\* b's declaration of a
DeclsBA(ba) ==
    CASE ba = "plain" -> <<Decl("a", "Normal", FALSE, NoCfg, <<>>, TRUE)>>
      [] ba = "bare" -> <<Decl("a", "Normal", FALSE, NoCfg, <<>>, FALSE)>>
      [] ba = "x" -> <<Decl("a", "Normal", FALSE, NoCfg, <<"x">>, FALSE)>>

\* a's declarations of d
ChainDeclsAD(ad) ==
    IF ad = "build" THEN <<Decl("d", "Build", FALSE, NoCfg, <<>>, TRUE)>>
    ELSE DeclsAD(ad)

\* a's capability declarations and resolved capabilities
ChainFeaturesA(af) ==
    IF af = "default"
    THEN [declared |-> [n \in {"default", "x", "y"} |->
                          IF n = "default" THEN <<Local("x")>> ELSE <<>>],
          resolved |-> {"default", "x", "y"}]
    ELSE FeaturesA(af)

\* r's declarations of a and of b
DeclsRA == <<Decl("a", "Normal", FALSE, NoCfg, <<>>, FALSE)>>
DeclsRB == <<Decl("b", "Normal", FALSE, NoCfg, <<>>, FALSE)>>

ChainReport(k) ==
    LET fa == ChainFeaturesA(k.af)
        pa == Pkg(1, fa.declared, ChainDeclsAD(k.ad))
        pb == Pkg(2, EmptyMap, DeclsBA(k.ba) \o DeclsBD(k.bd))
        pd == Pkg(3, FeaturesD, <<>>)
        na == [id |-> 1,
               deps |-> IF k.ad = "none" THEN <<>>
                        ELSE <<NodeDepOf(3, ChainDeclsAD(k.ad))>>,
               features |-> SortNames(fa.resolved)]
        nb == [id |-> 2,
               deps |-> <<NodeDepOf(1, DeclsBA(k.ba))>>
                        \o (IF k.bd = "none" THEN <<>>
                            ELSE <<NodeDepOf(3, DeclsBD(k.bd))>>),
               features |-> <<>>]
        nd == [id |-> 3, deps |-> <<>>, features |-> SortNames(ResolvedD("full"))]
        pr == Pkg(4, EmptyMap, DeclsRA \o DeclsRB)
        nr == [id |-> 4,
               deps |-> <<NodeDepOf(1, DeclsRA), NodeDepOf(2, DeclsRB)>>,
               features |-> <<>>]
        hasD == k.ad # "none" \/ k.bd # "none"
        top == IF k.top THEN 4 ELSE 2
    IN [resolve |-> TRUE,
        root |-> top,
        workspace_root |-> <<"ws">>,
        workspace_members |-> {top},
        packages |-> AsList({pa, pb} \cup (IF hasD THEN {pd} ELSE {})
                                     \cup (IF k.top THEN {pr} ELSE {})),
        nodes |-> AsList({na, nb} \cup (IF hasD THEN {nd} ELSE {})
                                  \cup (IF k.top THEN {nr} ELSE {}))]

\* the knob records of the chains: a declaration of b names a capability
\* only if a has it
ChainKnobs ==
    {k \in [ba : {"plain", "bare", "x"},
            bd : {"none", "normal", "build"},
            ad : {"none", "req", "opt", "build"},
            af : {"none", "strong", "weak", "local", "default"},
            top : BOOLEAN] :
        k.ba = "x" => "x" \in ChainFeaturesA(k.af).resolved}

ChainMetadata == {ChainReport(k) : k \in ChainKnobs}

NextChain ==
    \/ \E k \in DepKinds : IgnoreKind(k, "All")
    \/ \E spec \in ExcludeSpecs : Exclude(spec)
    \/ \E m \in ChainMetadata : BuildWithMetadata(m)
    \/ BuildSteps

SpecChain == Init /\ [][NextChain]_vars

----------------------------------------------------------------------------
(* Platform conditions: builds from the root a, whose dependency on d is    *)
(* conditional                                                              *)

Pred(key, value) == [op |-> "pred", pred |-> [kind |-> "Target", key |-> key, value |-> value]]
Flag(value) == [op |-> "pred", pred |-> [kind |-> "TargetFeature", value |-> value]]
OtherPred == [op |-> "pred", pred |-> [kind |-> "Other"]]
Not(e) == [op |-> "not", args |-> <<e>>]
AllOf(es) == [op |-> "all", args |-> es]
AnyOf(es) == [op |-> "any", args |-> es]
CfgExpr(e) == [form |-> "cfg", parses |-> TRUE, expr |-> e]

\* the conditions of the reports: triples, cfg expressions, and a text that
\* starts with "cfg(" and does not parse
Conditions ==
    {Triple("linux"), Triple("windows"), Triple("custom"),
     CfgExpr(Pred("family", "unix")),                        \* cfg(unix)
     CfgExpr(Pred("family", "windows")),                     \* cfg(windows)
     CfgExpr(Pred("os", "linux")),                           \* cfg(target_os = "linux")
     CfgExpr(Pred("env", "musl")),                           \* cfg(target_env = "musl")
     CfgExpr(AllOf(<<Pred("family", "windows"), Pred("env", "musl")>>)),
     CfgExpr(AnyOf(<<Pred("family", "windows"), Pred("env", "musl")>>)),
     CfgExpr(Not(Pred("family", "windows"))),                \* cfg(not(windows))
     CfgExpr(Flag("atomics")),                    \* cfg(target_feature = "atomics")
     CfgExpr(AllOf(<<Pred("family", "unix"), Flag("atomics")>>)),
     CfgExpr(OtherPred),                                     \* cfg(feature = "x")
     CfgExpr(AnyOf(<<>>)),                                     \* cfg(any())
     CfgExpr(AllOf(<<>>)),                                     \* cfg(all())
     CfgExpr(Not(AnyOf(<<>>))),                                \* cfg(not(any()))
     CfgExpr(Not(AllOf(<<>>))),                                \* cfg(not(all()))
     [form |-> "cfg", parses |-> FALSE]}                     \* cfg(unix

\* the report of the root a with the single dependency d under a condition
CfgReport(cond) ==
    LET decls == <<Decl("d", "Normal", FALSE, cond, <<>>, TRUE)>>
        pa == Pkg(1, EmptyMap, decls)
        pd == Pkg(3, FeaturesD, <<>>)
        na == [id |-> 1, deps |-> <<NodeDepOf(3, decls)>>, features |-> <<>>]
        nd == [id |-> 3, deps |-> <<>>, features |-> SortNames(ResolvedD("full"))]
    IN [resolve |-> TRUE,
        root |-> 1,
        workspace_root |-> <<"ws">>,
        workspace_members |-> {1},
        packages |-> AsList({pa, pd}),
        nodes |-> AsList({na, nd})]

CfgMetadata == {CfgReport(cond) : cond \in Conditions}

\* how many platforms a builder may be given
MaxTargets == 2

\* Builder::include_targets with one (triple, features) pair
IncludeTargetsWith(triple, features) ==
    /\ pc = "config"
    /\ Len(target_filters) < MaxTargets
    /\ target_filters' = Append(target_filters,
                                [triple |-> triple, features |-> features])
    /\ UNCHANGED <<exclude, ignore_kinds, ignore_calls>>
    /\ UNCHANGED RootVars
    /\ UNCHANGED BuildVars
    /\ UNCHANGED KidVars
    /\ UNCHANGED MatchVars
    /\ UNCHANGED IndexVars

NextCfg ==
    \/ \E triple \in {"linux", "musl", "windows", "custom"},
          features \in {<<>>, <<"atomics">>} : IncludeTargetsWith(triple, features)
    \/ \E m \in CfgMetadata : BuildWithMetadata(m)
    \/ BuildSteps

SpecCfg == Init /\ [][NextCfg]_vars

----------------------------------------------------------------------------
(* build_with_metadata as one function of the report and the builder *)

RECURSIVE RunVisit(_, _, _)
\* `while let Some((pid, feature)) = visit_stack.pop()`
RunVisit(m, c, s) ==
    IF s.panic \/ s.visit_stack = <<>> THEN s
    ELSE RunVisit(m, c, VisitStep(m, c, s))

RECURSIVE RunInsert(_, _, _, _, _, _)
\* `for (id, krate) in packages`, from the i-th package on
RunInsert(nodes, fem, dem, packages, i, st) ==
    IF i > Len(packages) THEN st
    ELSE RunInsert(nodes, fem, dem, packages, i + 1,
                   InsertPackage(nodes, fem, dem, packages[i], st))

RECURSIVE RunAttach(_, _, _, _, _)
\* `for srcind in 0..graph.node_count()`, from the node srcid on
RunAttach(g, kend, nodes, dem, srcid) ==
    IF srcid > kend THEN g
    ELSE LET pid == g.nodes[srcid].id
         IN RunAttach(IF pid \in DOMAIN dem
                      THEN AttachDeps(g, kend, nodes, srcid, dem[pid].deps,
                                      SortInts(DOMAIN dem[pid].deps), 1)
                      ELSE g,
                      kend, nodes, dem, srcid + 1)

RECURSIVE RunPops(_, _, _, _)
\* `while let Some(feat) = feature_stack.pop()`
RunPops(st, kend, pid, kind) ==
    IF st.feature_stack = <<>> THEN st
    ELSE RunPops(FeaturePopStep(st, kend, pid, kind), kend, pid, kind)

RECURSIVE RunFeatures(_, _, _, _, _)
\* `for (pid, features) in feature_edge_map`, from the i-th key on
RunFeatures(g, kend, fem, keys, i) ==
    IF i > Len(keys) THEN g
    ELSE LET pid == keys[i]
             kind == get(g, kend, pid, <<>>)
         IN RunFeatures(
                IF kind = 0 THEN g
                ELSE RunPops([g |-> g,
                              feature_stack |-> SortNames(g.nodes[kind].features),
                              enabled |-> fem[pid].graph],
                             kend, pid, kind).g,
                kend, fem, keys, i + 1)

\* the outcome of build_with_metadata: [result, g, filtered]
Build(m, c) ==
    IF ~m.resolve
    THEN [result |-> "NoResolveGraph", g |-> EmptyGraph, filtered |-> <<>>]
    ELSE
    LET nodes == Nodes(m)
        s == RunVisit(m, c,
                [visit_stack |-> SeedItems(nodes, SortInts(Roots(m, c)), 1),
                 feature_edge_map |-> EmptyMap, dep_edge_map |-> EmptyMap,
                 expanded |-> <<>>, panic |-> FALSE])
    IN IF s.panic THEN [result |-> "panic", g |-> EmptyGraph, filtered |-> <<>>]
       ELSE IF DOMAIN s.dep_edge_map = {}
       THEN [result |-> "NoRootKrates", g |-> EmptyGraph, filtered |-> <<>>]
       ELSE
       LET st == RunInsert(nodes, s.feature_edge_map, s.dep_edge_map,
                           Packages(m), 1, [g |-> EmptyGraph, filtered |-> <<>>])
           kend == Len(st.g.nodes)
           g1 == RunAttach(st.g, kend, nodes, s.dep_edge_map, 1)
           g2 == RunFeatures(g1, kend, s.feature_edge_map,
                             SortInts(DOMAIN s.feature_edge_map), 1)
       IN [result |-> "Ok", g |-> g2, filtered |-> st.filtered]

----------------------------------------------------------------------------
(* Queries on the finished graph (src/src/lib.rs). k = [g, krates_end,      *)
(* workspace_members] stands for a Krates value.                            *)

\* graph.edges_directed(nid, Outgoing): the edge indices, latest edge first
OutgoingEdges(g, nid) ==
    LET hits == {i \in DOMAIN g.edges : g.edges[i].src = nid}
        up == SortInts(hits)
    IN [i \in 1..Len(up) |-> up[Len(up) + 1 - i]]

\* graph.edges_directed(nid, Incoming): the edge indices, latest edge first
IncomingEdges(g, nid) ==
    LET hits == {i \in DOMAIN g.edges : g.edges[i].dst = nid}
        up == SortInts(hits)
    IN [i \in 1..Len(up) |-> up[Len(up) + 1 - i]]

RECURSIVE BinarySearchKidReversed(_, _, _, _)
\* BinarySearchKid with the comparison reversed
BinarySearchKidReversed(nodes, kid, lo, hi) ==
    IF lo >= hi THEN 0
    ELSE LET mid == lo + ((hi - lo) \div 2)
         IN IF nodes[mid].id = kid THEN mid
            ELSE IF nodes[mid].id > kid
                 THEN BinarySearchKidReversed(nodes, kid, mid + 1, hi)
                 ELSE BinarySearchKidReversed(nodes, kid, lo, mid)

\* Krates::nid_for_kid: binary search of the package-node prefix for kid; 0
\* is None. The search is run as the code runs it, on whatever the prefix
\* holds.
RECURSIVE BinarySearchKid(_, _, _, _)
BinarySearchKid(nodes, kid, lo, hi) ==
    IF lo >= hi THEN 0
    ELSE LET mid == lo + ((hi - lo) \div 2)
         IN IF nodes[mid].id = kid THEN mid
            ELSE IF nodes[mid].id < kid
                 THEN BinarySearchKid(nodes, kid, mid + 1, hi)
                 ELSE BinarySearchKid(nodes, kid, lo, mid)

nid_for_kid(k, kid) == BinarySearchKid(k.g.nodes, kid, 1, k.krates_end + 1)

RECURSIVE FilteredEdges(_, _, _, _, _)
\* `for edge in graph.edges_directed(nid, Outgoing)` of krates_filtered.
\* acc = [stack, visited, filtered]
FilteredEdges(g, filter, es, i, acc) ==
    IF i > Len(es) THEN acc
    ELSE
    LET edge == g.edges[es[i]]
        target == edge.dst
        skip == edge.edge.type \in {"Dep", "DepFeature"} /\ edge.edge.kind = filter
        fresh == target \notin acc.visited
    IN FilteredEdges(g, filter, es, i + 1,
          IF skip \/ ~fresh THEN acc
          ELSE [stack |-> Append(acc.stack, target),
                visited |-> acc.visited \cup {target},
                filtered |-> IF g.nodes[target].type = "Krate"
                             THEN acc.filtered \cup {g.nodes[target].id}
                             ELSE acc.filtered])

RECURSIVE FilteredLoop(_, _, _)
\* `while let Some(nid) = stack.pop()` of krates_filtered
FilteredLoop(g, filter, acc) ==
    IF acc.stack = <<>> THEN acc.filtered
    ELSE LET n == Len(acc.stack)
             nid == acc.stack[n]
             r == FilteredEdges(g, filter, OutgoingEdges(g, nid), 1,
                                [acc EXCEPT !.stack = SubSeq(@, 1, n - 1)])
         IN FilteredLoop(g, filter, [r EXCEPT !.visited = @ \cup {nid}])

\* Krates::krates_filtered: the ids of the packages it returns
krates_filtered(k, filter) ==
    LET members == SortInts(k.workspace_members)
        found == [i \in DOMAIN members |-> nid_for_kid(k, members[i])]
        start == {i \in DOMAIN members : found[i] # 0}
        stack == [j \in 1..Cardinality(start) |->
                    found[SortInts(start)[j]]]
    IN FilteredLoop(k.g, filter,
          [stack |-> stack, visited |-> {},
           filtered |-> {members[i] : i \in start}])

RECURSIVE DependencyEdges(_, _, _, _)
\* `for edge in graph.edges_directed(nid, Outgoing)` of direct_dependencies.
\* acc = [stack, visited, out]; out lists the node ids of the packages
\* returned
DependencyEdges(g, es, i, acc) ==
    IF i > Len(es) THEN acc
    ELSE
    LET target == g.edges[es[i]].dst
        fresh == target \notin acc.visited
    IN DependencyEdges(g, es, i + 1,
          IF ~fresh THEN acc
          ELSE IF g.nodes[target].type = "Krate"
          THEN [acc EXCEPT !.visited = @ \cup {target}, !.out = Append(@, target)]
          ELSE [acc EXCEPT !.visited = @ \cup {target},
                           !.stack = Append(@, target)])

RECURSIVE DependenciesLoop(_, _)
\* `while let Some(nid) = stack.pop()` of direct_dependencies
DependenciesLoop(g, acc) ==
    IF acc.stack = <<>> THEN acc.out
    ELSE LET n == Len(acc.stack)
         IN DependenciesLoop(g,
               DependencyEdges(g, OutgoingEdges(g, acc.stack[n]), 1,
                               [acc EXCEPT !.stack = SubSeq(@, 1, n - 1)]))

\* Krates::direct_dependencies: the node ids of the packages it returns, in
\* order
direct_dependencies(k, nid) ==
    DependenciesLoop(k.g, [stack |-> <<nid>>, visited |-> {}, out |-> <<>>])

RECURSIVE DependentEdges(_, _, _, _, _)
\* `for edge in graph.edges_directed(nid, Incoming)` of direct_dependents;
\* nid is the node the loop has popped
DependentEdges(g, nid, es, i, acc) ==
    IF i > Len(es) THEN acc
    ELSE
    LET source == g.edges[es[i]].src
        fresh == source \notin acc.visited
    IN DependentEdges(g, nid, es, i + 1,
          IF g.nodes[source].type = "Krate"
          THEN IF fresh
               THEN [acc EXCEPT !.visited = @ \cup {source},
                                !.out = Append(@, source)]
               ELSE acc
          ELSE IF g.nodes[source].krate_index = nid /\ fresh
               THEN [acc EXCEPT !.visited = @ \cup {source},
                                !.stack = Append(@, source)]
               ELSE acc)

RECURSIVE DependentsLoop(_, _)
\* `while let Some(nid) = stack.pop()` of direct_dependents
DependentsLoop(g, acc) ==
    IF acc.stack = <<>> THEN acc.out
    ELSE LET n == Len(acc.stack)
         IN DependentsLoop(g,
               DependentEdges(g, acc.stack[n], IncomingEdges(g, acc.stack[n]), 1,
                              [acc EXCEPT !.stack = SubSeq(@, 1, n - 1)]))

\* Krates::direct_dependents: the node ids of the packages it returns, in
\* order
direct_dependents(k, nid) ==
    DependentsLoop(k.g, [stack |-> <<nid>>, visited |-> {}, out |-> <<>>])

----------------------------------------------------------------------------
(* What can be observed of a build *)

Finished == pc = "done" /\ result = "Ok"

\* the ids of the package records of the report
PackageIds == {md.packages[i].id : i \in DOMAIN md.packages}

\* the package record and the resolution node of an id, as the report has them
Record(kid) == CHOOSE p \in Range(md.packages) : p.id = kid
ResolveNode(kid) == CHOOSE n \in Range(md.nodes) : n.id = kid

PackageNodes == {i \in DOMAIN graph_nodes : graph_nodes[i].type = "Krate"}
FeatureNodes == {i \in DOMAIN graph_nodes : graph_nodes[i].type = "Feature"}

HasNode(kid) == \E i \in PackageNodes : graph_nodes[i].id = kid
NodeOfKid(kid) == CHOOSE i \in PackageNodes : graph_nodes[i].id = kid

\* the package record of kid matches an exclusion spec
Matched(kid) == \E spec \in exclude : PkgSpecMatches(spec, Record(kid))

\* p's resolution node lists a dependency on d
ResolvedOn(p, d) ==
    \E i \in DOMAIN ResolveNode(p).deps : ResolveNode(p).deps[i].pkg = d

\* the entries of the capability lists that p's node has enabled
EnabledEntries(p) ==
    UNION {Range(Record(p).features[f]) :
             f \in graph_nodes[NodeOfKid(p)].features \cap DOMAIN Record(p).features}

\* the form of a capability entry, read off its text
IsWeakRef(e, name) == Len(e) = 3 /\ e[1] = name /\ e[2] = "?/"
IsStrongRef(e, name) ==
    \/ e[1] = "dep:" /\ e[2] = name
    \/ Len(e) = 3 /\ e[1] = name /\ e[2] = "/"

\* p's declarations of the dependency d
DeclsOn(p, d) ==
    {dep \in Range(Record(p).dependencies) : dep.name = Record(d).name}

\* an ignore_kind call covers the kind for sources inside / outside the workspace
CallIgnores(kind, is_in_workspace) ==
    \E call \in ignore_calls :
        /\ call[1] = kind
        /\ \/ call[2] = "All"
           \/ call[2] = "Workspace" /\ is_in_workspace
           \/ call[2] = "NonWorkspace" /\ ~is_in_workspace

\* the condition of a variant holds for one of the requested platforms
PlatformOk(cfg) ==
    \/ cfg.form = "none"
    \/ target_filters = <<>>
    \/ \E i \in DOMAIN target_filters : target_filters[i].triple = cfg.triple

\* the (kind, condition) variants of p's resolved dependency on d that the
\* kind filter and the platform filter keep and that are not optional or are
\* activated by an enabled capability of p
SurvivingVariants(p, d) ==
    {dk \in UNION {Range(ResolveNode(p).deps[i].dep_kinds) :
                     i \in {j \in DOMAIN ResolveNode(p).deps :
                              ResolveNode(p).deps[j].pkg = d}} :
        /\ ~CallIgnores(dk.kind, p \in md.workspace_members)
        /\ PlatformOk(dk.cfg)
        /\ \E dep \in DeclsOn(p, d) :
              /\ dep.kind = dk.kind
              /\ dep.target = dk.cfg
              /\ \/ ~dep.optional
                 \/ \E e \in EnabledEntries(p) : IsStrongRef(e, Record(d).name)}

\* the edges that leave p's package node for d's package node or for a
\* capability node d owns
EdgesFromTo(p, d) ==
    {i \in DOMAIN graph_edges :
        /\ graph_edges[i].src = NodeOfKid(p)
        /\ LET t == graph_nodes[graph_edges[i].dst]
           IN \/ t.type = "Krate" /\ t.id = d
              \/ t.type = "Feature" /\ t.krate_index = NodeOfKid(d)}

----------------------------------------------------------------------------
(* Exclusion *)

\* C1: a package whose record matches an exclusion spec never gets a package
\* node, whether it is a root or a dependency, and it is never expanded: it
\* gets no entry in either traversal map and no work item of it passes the
\* exclusion test.
ExcludedNeverKept ==
    \A kid \in PackageIds :
        Matched(kid) =>
            /\ ~HasNode(kid)
            /\ kid \notin DOMAIN feature_edge_map
            /\ kid \notin DOMAIN dep_edge_map
            /\ \A i \in DOMAIN expanded : expanded[i][1] # kid

\* a finished build in which an excluded package is a resolved dependency of
\* a package that has a node
ExcludedDependencyReached ==
    /\ Finished
    /\ \E kid \in PackageIds :
          /\ Matched(kid)
          /\ \E p \in PackageIds : HasNode(p) /\ ResolvedOn(p, kid)

AllRootsExcluded == \A r \in Roots(md, Cfg) : Matched(r)

\* C2: when the report has resolution data and every selected root is
\* excluded (or no root is selected) the build ends with NoRootKrates
\* without a call of on_filter; a build that ends with Ok has at least one
\* package node.
NoRootsNoGraph ==
    /\ (md.resolve /\ AllRootsExcluded) =>
          /\ filtered = <<>>
          /\ graph_nodes = <<>>
          /\ pc = "done" => result = "NoRootKrates"
    /\ result = "NoRootKrates" => filtered = <<>>
    /\ Finished => PackageNodes # {}

\* a build that ended with every one of its roots excluded
EveryRootExcludedReached ==
    /\ pc = "done"
    /\ md.resolve
    /\ Roots(md, Cfg) # {}
    /\ AllRootsExcluded
    /\ result = "NoRootKrates"

----------------------------------------------------------------------------
(* Outcomes *)

\* C3: a build has exactly three outcomes: NoResolveGraph exactly when the
\* report has no resolution data, otherwise NoRootKrates or Ok; a capability
\* entry that names a dependency or a capability the resolver does not list
\* is skipped and never aborts the build.
OnlyThreeOutcomes ==
    pc = "done" =>
        /\ result \in {"Ok", "NoRootKrates", "NoResolveGraph"}
        /\ result = "NoResolveGraph" <=> ~md.resolve

----------------------------------------------------------------------------
(* Weak references *)

\* d is an optional dependency of p that p's enabled capabilities name in
\* weak references only
WeakOnly(p, d) ==
    /\ DeclsOn(p, d) # {}
    /\ \A dep \in DeclsOn(p, d) : dep.optional
    /\ \E e \in EnabledEntries(p) : IsWeakRef(e, Record(d).name)
    /\ \A e \in EnabledEntries(p) : ~IsStrongRef(e, Record(d).name)

\* some package with a node, other than p, has a surviving dependency on d
OtherDependent(p, d) ==
    \E q \in PackageIds \ {p, d} : HasNode(q) /\ SurvivingVariants(q, d) # {}

\* C4 as stated: when the enabled capabilities of P name the optional
\* dependency D in weak references only, no edge leaves P's node for D's
\* node or for a capability node of D, and D has no node when no other
\* package of the graph has a surviving dependency on D.
WeakAloneNeverPulls ==
    Finished =>
        \A p \in PackageIds, d \in PackageIds :
            (p # d /\ HasNode(p) /\ WeakOnly(p, d)) =>
                /\ HasNode(d) => EdgesFromTo(p, d) = {}
                /\ ~OtherDependent(p, d) => ~HasNode(d)

\* C4, amended: the same, for a D that is not itself a root of the build.
WeakAloneNeverPullsNonRoot ==
    Finished =>
        \A p \in PackageIds, d \in PackageIds :
            (p # d /\ HasNode(p) /\ WeakOnly(p, d)) =>
                /\ HasNode(d) => EdgesFromTo(p, d) = {}
                /\ (d \notin Roots(md, Cfg) /\ ~OtherDependent(p, d)) => ~HasNode(d)

\* a finished build in which a weak-only optional dependency is kept out of
\* the graph
WeakOnlyPruned ==
    /\ Finished
    /\ \E p \in PackageIds, d \in PackageIds :
          p # d /\ HasNode(p) /\ WeakOnly(p, d) /\ ~HasNode(d)

\* the report with every weak reference D?/f written as the strong D/f
StrongVariant(m) ==
    [m EXCEPT !.packages =
        [i \in DOMAIN m.packages |->
            [m.packages[i] EXCEPT !.features =
                [n \in DOMAIN m.packages[i].features |->
                    [j \in DOMAIN m.packages[i].features[n] |->
                        LET e == m.packages[i].features[n][j]
                        IN IF Len(e) = 3 /\ e[2] = "?/"
                           THEN <<e[1], "/", e[3]>> ELSE e]]]]]

\* in the graph g: the capabilities enabled on the package kid, {"-"} when
\* it has no node
FeaturesIn(g, kid) ==
    IF \E i \in DOMAIN g.nodes : g.nodes[i].type = "Krate" /\ g.nodes[i].id = kid
    THEN (CHOOSE n \in Range(g.nodes) : n.type = "Krate" /\ n.id = kid).features
    ELSE {"-"}

\* in the graph g: the edges from the node of p to the node of d or to a
\* capability node of d, as (weight, capability name or "") pairs
EdgesIn(g, p, d) ==
    {<<g.edges[i].edge,
       IF g.nodes[g.edges[i].dst].type = "Krate" THEN ""
       ELSE g.nodes[g.edges[i].dst].name>> :
        i \in {j \in DOMAIN g.edges :
                 /\ g.nodes[g.edges[j].src].type = "Krate"
                 /\ g.nodes[g.edges[j].src].id = p
                 /\ LET t == g.nodes[g.edges[j].dst]
                    IN \/ t.type = "Krate" /\ t.id = d
                       \/ /\ t.type = "Feature"
                          /\ g.nodes[t.krate_index].type = "Krate"
                          /\ g.nodes[t.krate_index].id = d}}

\* an enabled capability of p holds a weak reference to d, and d is enabled
\* for p by a dep: marker, a strong reference or a non-optional declaration
WeakAndEnabled(p, d) ==
    /\ ResolvedOn(p, d)
    /\ \E e \in EnabledEntries(p) : IsWeakRef(e, Record(d).name)
    /\ \/ \E e \in EnabledEntries(p) : IsStrongRef(e, Record(d).name)
       \/ \E dep \in DeclsOn(p, d) : ~dep.optional

\* C5: when an enabled capability of P holds a weak reference D?/f and D is
\* enabled for P by a non-weak reason, the finished graph enables f on D and
\* has the edges from P to D and the enabled capabilities of D that the
\* build of the same report with D?/f written as D/f has, in whichever order
\* the references are processed.
WeakThenStrongIsStrong ==
    Finished =>
        \A p \in PackageIds, d \in PackageIds :
            (p # d /\ HasNode(p) /\ WeakAndEnabled(p, d)) =>
                LET strong == Build(StrongVariant(md), Cfg)
                IN /\ strong.result = "Ok"
                   /\ EdgesIn(Graph, p, d) = EdgesIn(strong.g, p, d)
                   /\ FeaturesIn(Graph, d) = FeaturesIn(strong.g, d)
                   /\ \A e \in EnabledEntries(p) :
                         (IsWeakRef(e, Record(d).name) /\ EdgesIn(Graph, p, d) # {})
                            => e[3] \in FeaturesIn(Graph, d)

----------------------------------------------------------------------------
(* The package set *)

\* C6: a package that is not a root has a node exactly when it is not
\* excluded and some package with a node has a resolved dependency on it with
\* at least one variant that survives the kind filter and the platform
\* filter and is not optional or is activated by an enabled capability.
PackageSetCharacterised ==
    Finished =>
        \A q \in PackageIds \ Roots(md, Cfg) :
            HasNode(q) <=>
                /\ ~Matched(q)
                /\ \E p \in PackageIds \ {q} :
                      HasNode(p) /\ SurvivingVariants(p, q) # {}

\* a finished build that keeps one non-root package and prunes another
KeptAndPruned ==
    /\ Finished
    /\ \E q \in PackageIds \ Roots(md, Cfg) : HasNode(q)
    /\ \E q \in PackageIds \ Roots(md, Cfg) :
          ~HasNode(q) /\ ~Matched(q) /\ \E p \in PackageIds : HasNode(p) /\ ResolvedOn(p, q)

----------------------------------------------------------------------------
(* The shape of the graph *)

\* C7: every edge joins two nodes of the graph; a Dep edge ends at a package
\* node and a DepFeature edge at a capability node; a capability node's
\* owner index is the index of a package node, below the package count; no
\* node belongs to an excluded package or to one handed to on_filter.
NoDanglingEdges ==
    /\ \A i \in DOMAIN graph_edges :
          LET e == graph_edges[i]
          IN /\ e.src \in DOMAIN graph_nodes
             /\ e.dst \in DOMAIN graph_nodes
             /\ e.edge.type = "Dep" => e.dst \in PackageNodes
             /\ e.edge.type = "DepFeature" => e.dst \in FeatureNodes
    /\ \A i \in FeatureNodes :
          /\ graph_nodes[i].krate_index \in PackageNodes
          /\ graph_nodes[i].krate_index <= Cardinality(PackageNodes)
    /\ \A i \in PackageNodes :
          /\ ~Matched(graph_nodes[i].id)
          /\ graph_nodes[i].id \notin Range(filtered)

\* a finished graph with a Dep edge, a DepFeature edge and a Feature edge
EdgesOfEveryType ==
    /\ Finished
    /\ \E i \in DOMAIN graph_edges : graph_edges[i].edge.type = "Dep"
    /\ \E i \in DOMAIN graph_edges : graph_edges[i].edge.type = "DepFeature"
    /\ \E i \in DOMAIN graph_edges : graph_edges[i].edge.type = "Feature"

\* C8: the package nodes are the first nodes of the graph, in strictly
\* ascending order of their ids, and every node after them is a capability
\* node, in every state of the build.
PackagePrefixSorted ==
    LET n == Cardinality(PackageNodes)
    IN /\ PackageNodes = 1..n
       /\ \A i \in 1..(n - 1) : graph_nodes[i].id < graph_nodes[i + 1].id
       /\ pc \in {"deps", "feats", "done"} => krates_end = n

\* a finished graph with three package nodes and capability nodes after them
ThreePackagesThenCapabilities ==
    /\ Finished
    /\ Cardinality(PackageNodes) = 3
    /\ FeatureNodes # {}

\* C9: in a build that ends with Ok, on_filter is called exactly once for
\* each package record that has no node and never for one that has a node:
\* the node ids and the reported ids partition the package list.
FilteredPartition ==
    /\ \A i \in PackageNodes : graph_nodes[i].id \notin Range(filtered)
    /\ Finished =>
          /\ Len(filtered) = Cardinality(Range(filtered))
          /\ Range(filtered) \cup {graph_nodes[i].id : i \in PackageNodes}
                = PackageIds

\* a finished build that kept a package and reported another to on_filter
KeptAndReported ==
    /\ Finished
    /\ filtered # <<>>
    /\ PackageNodes # {}

----------------------------------------------------------------------------
(* The kind filter *)

\* C10: after any sequence of ignore_kind(K, S) calls the finished graph has
\* no Dep or DepFeature edge of a kind K from a source package in a scope S
\* that a call named, and every variant that no call names and that passes
\* the other filters has its edge; the six (kind, scope) flags are set
\* independently of each other, and setting Workspace and then NonWorkspace
\* for a kind is setting All.
KindFilterExact ==
    /\ \A k \in DepKinds, w \in BOOLEAN :
          KindIgnored(ignore_kinds, k, w) <=> CallIgnores(k, w)
    /\ \A k \in DepKinds :
          IgnoreKindMask(IgnoreKindMask(ignore_kinds, k, "Workspace"),
                         k, "NonWorkspace")
            = IgnoreKindMask(ignore_kinds, k, "All")
    /\ Finished =>
          /\ \A i \in DOMAIN graph_edges :
                LET e == graph_edges[i]
                IN e.edge.type \in {"Dep", "DepFeature"} =>
                      /\ e.src \in PackageNodes
                      /\ ~CallIgnores(e.edge.kind,
                                      graph_nodes[e.src].id \in md.workspace_members)
          /\ \A p \in PackageIds, d \in PackageIds :
                (HasNode(p) /\ ~Matched(d)) =>
                    \A dk \in SurvivingVariants(p, d) :
                        /\ HasNode(d)
                        /\ \E i \in EdgesFromTo(p, d) :
                              /\ graph_edges[i].edge.type \in {"Dep", "DepFeature"}
                              /\ graph_edges[i].edge.kind = dk.kind
                              /\ graph_edges[i].edge.cfg = dk.cfg

\* a finished graph from which the kind filter dropped a variant of a kept
\* package and left another
KindDroppedAndKept ==
    /\ Finished
    /\ \E p \in PackageIds :
          /\ HasNode(p)
          /\ \E i \in DOMAIN ResolveNode(p).deps :
                \E dk \in Range(ResolveNode(p).deps[i].dep_kinds) :
                    CallIgnores(dk.kind, p \in md.workspace_members)
    /\ \E i \in DOMAIN graph_edges : graph_edges[i].edge.type \in {"Dep", "DepFeature"}

----------------------------------------------------------------------------
(* The filtered view *)

\* the Krates value a finished build returns
Krates == [g |-> Graph, krates_end |-> krates_end,
           workspace_members |-> md.workspace_members]

\* the ids of the package nodes of a graph
PackageIdsIn(g) == {n.id : n \in {x \in Range(g.nodes) : x.type = "Krate"}}

\* the build of the same report and configuration with kind k ignored for
\* every scope
BuildIgnoring(k) ==
    Build(md, [Cfg EXCEPT !.ignore_kinds = IgnoreKindMask(@, k, "All")])

\* C11: for a graph built with no kind ignored and every kind K,
\* krates_filtered(K) returns the packages that have a node in the graph
\* built from the same report and configuration with ignore_kind(K, All).
FilteredViewIsIgnoredBuild ==
    (Finished /\ ignore_kinds = 0) =>
        \A k \in DepKinds :
            BuildIgnoring(k).result = "Ok" =>
                krates_filtered(Krates, k) = PackageIdsIn(BuildIgnoring(k).g)

----------------------------------------------------------------------------
(* Root selection *)

\* a build has chosen its roots
RootsChosen == pc # "config" /\ md.resolve

\* the packages the traversal was seeded with: the first work item of every
\* root (histories of the worklist are not kept, so the roots are read off
\* the function the seeding applies)
ChosenRoots == Roots(md, Cfg)

ManifestOf(kid) ==
    LET i == CHOOSE i \in DOMAIN md.packages : md.packages[i].id = kid
    IN md.packages[i].manifest_path

\* the root set the four cases give for a list of paths
RootsBy(paths) ==
    IF paths # <<>>
    THEN IF Len(paths) = 1 /\ parent(paths[1]) = md.workspace_root
         THEN md.workspace_members
         ELSE {wm \in md.workspace_members : ManifestOf(wm) \in Range(paths)}
    ELSE IF workspace THEN md.workspace_members
    ELSE IF md.root # 0 THEN {md.root}
    ELSE md.workspace_members

\* C12 as stated: the four cases over the paths as they were given to
\* include_workspace_crates.
RootsByGivenPaths == RootsChosen => ChosenRoots = RootsBy(given_paths)

\* C12: the root set is (1) the workspace members whose manifest path equals
\* one of the stored paths (a given path, canonicalized where it resolves and
\* completed with Cargo.toml), or all members when the single stored path has
\* the workspace root as parent; (2) else all members under workspace(true);
\* (3) else the report's resolution root alone; (4) else all members.
RootsByStoredPaths == RootsChosen => ChosenRoots = RootsBy(workspace_filters)

\* every case of the selection is met: a directory path selecting one of two
\* members, and the flag overriding a named root
DirectoryPathSelectsMember ==
    /\ Finished /\ result = "Ok"
    /\ given_paths = <<<<"ws", "b">>>>
    /\ md.workspace_members = {1, 2}
    /\ PackageIdsIn(Graph) = {2}

----------------------------------------------------------------------------
(* Published capabilities of roots *)

\* the capability list the report's resolution node gives for kid
ReportedFeatures(kid) == Range(ResolveNode(kid).features)

\* C13: in a finished graph the published capability set of every root
\* package is exactly the capability list the report gives for it.
RootFeaturesAsReported ==
    Finished =>
        \A kid \in Roots(md, Cfg) :
            HasNode(kid) => FeaturesIn(Graph, kid) = ReportedFeatures(kid)

----------------------------------------------------------------------------
(* Published capabilities of packages that are not roots *)

\* q's declarations of p behind the surviving variants of its dependency
SurvivingDecls(q, p) ==
    {dep \in DeclsOn(q, p) :
        \E dk \in SurvivingVariants(q, p) :
            dep.kind = dk.kind /\ dep.target = dk.cfg}

\* the capabilities of p that an enabled entry of q activates: D/f, and D?/f
\* which is eligible because q's dependency on p survives
ActivatedBy(q, p) ==
    {e[3] : e \in {x \in EnabledEntries(q) :
                     Len(x) = 3 /\ x[1] = Record(p).name /\ x[2] \in {"/", "?/"}}}

\* what the surviving incoming edges of p request
Requested(p) ==
    UNION {
        IF SurvivingVariants(q, p) = {} THEN {}
        ELSE ActivatedBy(q, p) \cup
             UNION {Range(dep.features) \cup
                    (IF dep.uses_default_features /\ "default" \in ReportedFeatures(p)
                     THEN {"default"} ELSE {}) : dep \in SurvivingDecls(q, p)}
        : q \in {r \in PackageIds \ {p} : HasNode(r)}}

RECURSIVE LocalClosure(_, _)
\* the least set holding S and closed under p's declared local references
LocalClosure(p, S) ==
    LET entries == UNION {Range(Record(p).features[n]) :
                            n \in S \cap DOMAIN Record(p).features}
        step == S \cup {e[1] : e \in {x \in entries : Len(x) = 1}}
    IN IF step = S THEN S ELSE LocalClosure(p, step)

\* the packages of the finished graph that are not roots
NonRoots == {p \in PackageIds \ Roots(md, Cfg) : HasNode(p)}

\* the published set of p is the closure of what is requested of it
PublishedIsClosure(p) ==
    FeaturesIn(Graph, p) = LocalClosure(p, Requested(p))

\* the published set of p holds capabilities of p only
PublishedAreOwn(p) ==
    FeaturesIn(Graph, p) \subseteq DOMAIN Record(p).features

\* C14: for every package of the finished graph that is not a root, the
\* published capability set is the least set that holds what the surviving
\* incoming edges request (the declarations' capability lists, default when
\* the declaration asks for defaults and the package reports a default
\* capability, and what the dependents' enabled strong and eligible weak
\* references activate) and is closed under the package's own local
\* references; it holds no name that is not a capability of the package.
NonRootFeaturesLeast ==
    Finished => \A p \in NonRoots : PublishedIsClosure(p) /\ PublishedAreOwn(p)

----------------------------------------------------------------------------
(* Platform conditions *)

\* the conditions under which p declares its dependency on d
ConditionsOn(p, d) ==
    {dep.target : dep \in {x \in DeclsOn(p, d) : x.target.form # "none"}}

\* p's node has a dependency edge under the condition cond to d's node or to
\* a capability node of d
EdgeUnder(p, d, cond) ==
    /\ HasNode(p) /\ HasNode(d)
    /\ \E i \in EdgesFromTo(p, d) :
          /\ graph_edges[i].edge.type \in {"Dep", "DepFeature"}
          /\ graph_edges[i].edge.cfg = cond

\* a well-formed cfg expression without predicates
ZeroPredicates(cond) ==
    cond.form = "cfg" /\ cond.parses /\ PredicatesOf(cond.expr) = {}

RECURSIVE Truth(_)
\* the value of an expression without predicates
Truth(expr) ==
    CASE expr.op = "not" -> ~Truth(expr.args[1])
      [] expr.op = "all" -> \A i \in DOMAIN expr.args : Truth(expr.args[i])
      [] expr.op = "any" -> \E i \in DOMAIN expr.args : Truth(expr.args[i])

\* a condition that can never hold: no predicate, and false
NeverHolds(cond) == ZeroPredicates(cond) /\ ~Truth(cond.expr)

\* C15: with an empty platform list every conditional variant keeps its
\* edge, except a well-formed cfg expression without predicates that is
\* false, which has no edge; such a variant has no edge under a non-empty
\* list either.
EmptyListKeepsAll ==
    Finished =>
        \A cond \in ConditionsOn(1, 3) :
            /\ target_filters = <<>> => (EdgeUnder(1, 3, cond) <=> ~NeverHolds(cond))
            /\ NeverHolds(cond) => ~EdgeUnder(1, 3, cond)

\* both cases of C15 in one finished build each
NeverHoldsDropped ==
    /\ Finished /\ target_filters = <<>>
    /\ \E cond \in ConditionsOn(1, 3) : NeverHolds(cond) /\ ~HasNode(3)

\* the property of a configured platform that a platform predicate asks
\* for; "?" when the platform is not one of the known ones
PlatformProperty(platform, key) ==
    IF platform.triple \in BuiltinTargets
    THEN TargetInfo(platform.triple)[key] ELSE "?"

RECURSIVE Satisfies(_, _)
\* the expression is true for the platform taken on its own: platform
\* predicates against the platform, capability-flag predicates by membership
\* in the platform's flag list; no other predicate holds
Satisfies(platform, expr) ==
    CASE expr.op = "pred" ->
            \/ /\ expr.pred.kind = "Target"
               /\ PlatformProperty(platform, expr.pred.key) = expr.pred.value
            \/ /\ expr.pred.kind = "TargetFeature"
               /\ expr.pred.value \in Range(platform.features)
      [] expr.op = "not" -> ~Satisfies(platform, expr.args[1])
      [] expr.op = "all" ->
            \A i \in DOMAIN expr.args : Satisfies(platform, expr.args[i])
      [] expr.op = "any" ->
            \E i \in DOMAIN expr.args : Satisfies(platform, expr.args[i])

\* the three ways a condition survives a non-empty platform list
SurvivesList(cond) ==
    \/ /\ cond.form = "triple"
       /\ \E platform \in Range(target_filters) : platform.triple = cond.triple
    \/ /\ cond.form = "cfg" /\ cond.parses
       /\ \E platform \in Range(target_filters) : Satisfies(platform, cond.expr)
    \/ cond.form = "cfg" /\ ~cond.parses

----------------------------------------------------------------------------
(* Exclusion *)

\* the exclusion spec that names the package x
SpecFor(x) == [name |-> Record(x).name, version |-> "", url |-> <<>>]

\* the build of the same report and configuration with x excluded as well
BuildExcluding(x) ==
    Build(md, [Cfg EXCEPT !.exclude = @ \cup {SpecFor(x)}])

\* the packages with a node that the finished graph reaches from the roots
\* along dependency edges without entering x
RECURSIVE ReachAvoiding(_, _)
ReachAvoiding(x, S) ==
    LET step == S \cup {q \in PackageIds \ {x} :
                          HasNode(q) /\ \E p \in S : EdgesFromTo(p, q) # {}}
    IN IF step = S THEN S ELSE ReachAvoiding(x, step)

KeptWithout(x) ==
    ReachAvoiding(x, {r \in Roots(md, Cfg) \ {x} : HasNode(r)})

\* x has a node and no dependency edge of its own
IsLeaf(x) ==
    HasNode(x) /\ \A q \in PackageIds \ {x} : HasNode(q) => EdgesFromTo(x, q) = {}

----------------------------------------------------------------------------
(* Direct dependencies and dependents *)

\* the package nodes p's own dependency edges lead to: the target of a Dep
\* edge, or the owner of the capability node a DepFeature edge ends in
OwnDependencies(nid) ==
    {IF graph_nodes[graph_edges[i].dst].type = "Krate"
     THEN graph_edges[i].dst
     ELSE graph_nodes[graph_edges[i].dst].krate_index :
        i \in {j \in DOMAIN graph_edges :
                 /\ graph_edges[j].src = nid
                 /\ graph_edges[j].edge.type \in {"Dep", "DepFeature"}}}

\* the package nodes that have nid among their own dependencies
OwnDependents(nid) == {p \in PackageNodes : nid \in OwnDependencies(p)}

NoRepeat(seq) == Cardinality(Range(seq)) = Len(seq)

\* C18: direct_dependencies(n) returns exactly the packages n itself depends
\* on, each once, and never a package that is only a dependency of a
\* dependency; direct_dependents(n) returns exactly the packages that
\* themselves depend on n, each once.
DirectMeansDirect ==
    Finished =>
        \A nid \in PackageNodes :
            /\ Range(direct_dependencies(Krates, nid)) = OwnDependencies(nid)
            /\ NoRepeat(direct_dependencies(Krates, nid))
            /\ Range(direct_dependents(Krates, nid)) = OwnDependents(nid)
            /\ NoRepeat(direct_dependents(Krates, nid))

----------------------------------------------------------------------------
(* Looking a package up *)

\* every identifier a caller may ask for
AllKids == DOMAIN PackageNames

\* C19: nid_for_kid(k) returns a node exactly when a package node with the
\* identifier k exists, and then that node; for every package node i,
\* nid_for_kid of its identifier returns i.
LookupFindsPackageNode ==
    Finished =>
        /\ \A kid \in AllKids :
              /\ nid_for_kid(Krates, kid) # 0 <=> HasNode(kid)
              /\ HasNode(kid) => nid_for_kid(Krates, kid) = NodeOfKid(kid)
        /\ \A i \in PackageNodes : nid_for_kid(Krates, graph_nodes[i].id) = i

\* a lookup that finds the last of three package nodes and one that finds
\* nothing, in a graph that has capability nodes after the packages
LookupHitAndMiss ==
    /\ Finished
    /\ Cardinality(PackageNodes) = 3
    /\ FeatureNodes # {}
    /\ nid_for_kid(Krates, 3) = 3
    /\ nid_for_kid(Krates, 4) = 0

----------------------------------------------------------------------------
(* Kid::from, character by character.  A string is a sequence of one-     *)
(* character strings; offsets are the 0-based byte offsets of the source,  *)
(* a range (s, e) is half-open.                                            *)

\* Option::None of find and rfind
NoIndex == -1

\* &s[from..to]
Slice(s, from, to) == SubSeq(s, from + 1, to)

contains(s, c) == \E i \in 1..Len(s) : s[i] = c

find(s, c) ==
    IF contains(s, c)
    THEN (CHOOSE i \in 1..Len(s) : s[i] = c /\ \A j \in 1..(i - 1) : s[j] # c) - 1
    ELSE NoIndex

rfind(s, c) ==
    IF contains(s, c)
    THEN (CHOOSE i \in 1..Len(s) : s[i] = c /\ \A j \in (i + 1)..Len(s) : s[j] # c) - 1
    ELSE NoIndex

starts_with(s, prefix) ==
    Len(prefix) <= Len(s) /\ SubSeq(s, 1, Len(prefix)) = prefix

GitPlus == <<"g", "i", "t", "+">>

\* the arm of `match encoding` that is taken, "" for the panicking one
PercentChar(encoding) ==
    CASE encoding \in {<<"2", "F">>, <<"2", "f">>} -> "/"
      [] encoding = <<"2", "3">> -> "#"
      [] encoding = <<"2", "5">> -> "%"
      [] encoding = <<"2", "8">> -> "("
      [] encoding = <<"2", "9">> -> ")"
      [] encoding \in {<<"2", "B">>, <<"2", "b">>} -> "+"
      [] encoding \in {<<"3", "D">>, <<"3", "d">>} -> "="
      [] encoding = <<"4", "0">> -> "@"
      [] encoding = <<"2", "0">> -> " "
      [] encoding \in {<<"3", "F">>, <<"3", "f">>} -> "?"
      [] OTHER -> ""

\* the decoding loop: what is left to decode and what has been decoded
RECURSIVE DecodeLoop(_, _)
DecodeLoop(encoded, decoded) ==
    LET pi == find(encoded, "%")
    IN IF pi = NoIndex
       THEN [panic |-> FALSE, str |-> decoded \o encoded]
       ELSE IF pi + 3 > Len(encoded)
       THEN [panic |-> TRUE, str |-> <<>>]
       ELSE IF PercentChar(Slice(encoded, pi + 1, pi + 3)) = ""
       THEN [panic |-> TRUE, str |-> <<>>]
       ELSE DecodeLoop(Slice(encoded, pi + 3, Len(encoded)),
                       (decoded \o Slice(encoded, 0, pi))
                           \o <<PercentChar(Slice(encoded, pi + 1, pi + 3))>>)

MkKid(repr, components) ==
    [repr |-> repr, components |-> components, panic |-> FALSE]

KidPanic(repr) ==
    [repr |-> repr, components |-> <<>>, panic |-> TRUE]

\* the opaque arm: "<name> <version> (<source>)"
KidFromOpaque(repr) ==
    LET name1 == find(repr, " ")
        v == find(Slice(repr, name1 + 1, Len(repr)), " ")
        version1 == v + name1 + 1
        hash == rfind(repr, "#")
        source1 == IF hash = NoIndex THEN Len(repr) - 1 ELSE hash
    IN IF v = NoIndex
       THEN KidPanic(repr)
       ELSE MkKid(repr, << <<0, name1>>, <<name1 + 1, version1>>,
                           <<version1 + 2, source1>> >>)

\* the stable arm of a git source without a name after the '#'
KidFromGit(repr, vmn, begin) ==
    LET q == rfind(Slice(repr, begin, Len(repr)), "?")
        end == IF q = NoIndex THEN vmn ELSE q + begin
        encoded == Slice(repr, end, Len(repr))
        decoded == DecodeLoop(encoded, <<>>)
        shorter == Slice(repr, 0, end) \o decoded.str
        moved == vmn - (Len(encoded) - Len(decoded.str))
    IN IF ~contains(encoded, "%")
       THEN MkKid(repr, << <<begin, end>>, <<vmn + 1, Len(repr)>>, <<0, vmn>> >>)
       ELSE IF decoded.panic
       THEN KidPanic(repr)
       ELSE MkKid(shorter, << <<begin, end>>, <<moved + 1, Len(shorter)>>,
                              <<0, moved>> >>)

\* the stable arm: "<source>#<name>@<version>" or "<source>#<version>"
KidFromStable(repr) ==
    LET vmn == rfind(repr, "#")
        split == find(Slice(repr, vmn, Len(repr)), "@")
        slash == rfind(repr, "/")
        begin == slash + 1
    IN IF vmn = NoIndex
       THEN KidPanic(repr)
       ELSE IF split # NoIndex
       THEN MkKid(repr, << <<vmn + 1, vmn + split>>,
                           <<vmn + split + 1, Len(repr)>>, <<0, vmn>> >>)
       ELSE IF slash = NoIndex
       THEN KidPanic(repr)
       ELSE IF starts_with(repr, GitPlus)
       THEN KidFromGit(repr, vmn, begin)
       ELSE MkKid(repr, << <<begin, vmn>>, <<vmn + 1, Len(repr)>>, <<0, vmn>> >>)

Kid_from(repr) ==
    IF contains(repr, " ") THEN KidFromOpaque(repr) ELSE KidFromStable(repr)

\* &self.repr[s..e], which panics on a range that does not lie in the string
Component(kid, i) ==
    LET s == kid.components[i][1]
        e == kid.components[i][2]
    IN IF s <= e /\ e <= Len(kid.repr) THEN Slice(kid.repr, s, e) ELSE <<"panic">>

Kid_name(kid) == Component(kid, 1)

Kid_version(kid) == Component(kid, 2)

Kid_source(kid) == Component(kid, 3)

\* the characters of the universe in byte order
ByteOrder ==
    <<" ", "#", "%", "(", ")", "+", "/", "0", "1", "2", "3", "4", "5", "8",
      "9", "=", "?", "@", "B", "D", "F", "a", "b", "c", "d", "e", "f", "g",
      "h", "i", "p", "r", "t", "x", "y", "panic">>

Byte(c) == CHOOSE i \in DOMAIN ByteOrder : ByteOrder[i] = c

\* str::cmp
RECURSIVE StrCmp(_, _)
StrCmp(a, b) ==
    IF a = <<>> /\ b = <<>> THEN "Equal"
    ELSE IF a = <<>> THEN "Less"
    ELSE IF b = <<>> THEN "Greater"
    ELSE IF Byte(Head(a)) < Byte(Head(b)) THEN "Less"
    ELSE IF Byte(Head(a)) > Byte(Head(b)) THEN "Greater"
    ELSE StrCmp(Tail(a), Tail(b))

\* Kid::cmp: the three components in turn
Kid_cmp(self, o) ==
    IF StrCmp(Component(self, 1), Component(o, 1)) # "Equal"
    THEN StrCmp(Component(self, 1), Component(o, 1))
    ELSE IF StrCmp(Component(self, 2), Component(o, 2)) # "Equal"
    THEN StrCmp(Component(self, 2), Component(o, 2))
    ELSE StrCmp(Component(self, 3), Component(o, 3))

\* Kid::eq
Kid_eq(self, o) == Kid_cmp(self, o) = "Equal"

----------------------------------------------------------------------------
(* The identifiers of the universe.  A package is a name, a version and a  *)
(* source: a scheme, a url, for a git source the query that names the      *)
(* branch, and the commit the opaque format carries after a '#'.           *)

Identity(name, kind, url, query) ==
    [name |-> name, version |-> <<"1">>, kind |-> kind, url |-> url,
     query |-> query]

Scheme(kind) ==
    CASE kind = "registry" -> <<"r", "e", "g", "+">>
      [] kind = "path" -> <<"p", "a", "t", "h", "+">>
      [] kind = "git" -> GitPlus

\* the source url as the package record and the opaque format carry it
SourceUrl(id) ==
    (Scheme(id.kind) \o id.url)
        \o (IF id.query = <<>> THEN <<>> ELSE <<"?">> \o id.query)

\* the percent-encoding the stable format applies to the query
RECURSIVE Encode(_)
Encode(str) ==
    IF str = <<>> THEN <<>>
    ELSE (IF Head(str) = "/" THEN <<"%", "2", "F">> ELSE <<Head(str)>>)
             \o Encode(Tail(str))

StableUrl(id) ==
    (Scheme(id.kind) \o id.url)
        \o (IF id.query = <<>> THEN <<>> ELSE <<"?">> \o Encode(id.query))

\* the last path component of the url
LastSegment(url) == Slice(url, rfind(url, "/") + 1, Len(url))

\* "<name> <version> (<source>)", a git source with "#<commit>"
Opaque(id) ==
    (((((id.name \o <<" ">>) \o id.version) \o <<" ", "(">>) \o SourceUrl(id))
        \o (IF id.kind = "git" THEN <<"#", "c">> ELSE <<>>)) \o <<")">>

\* "<source>#<version>" when the name is the last path component of the
\* source, "<source>#<name>@<version>" otherwise
Stable(id) ==
    (StableUrl(id) \o <<"#">>)
        \o (IF id.name = LastSegment(id.url)
            THEN id.version
            ELSE (id.name \o <<"@">>) \o id.version)

Sources ==
    { <<"registry", <<"h", "/", "i">>, <<>> >>,
      <<"path", <<"f", "/", "a">>, <<>> >>,
      <<"git", <<"h", "/", "r">>, <<>> >>,
      <<"git", <<"h", "/", "r">>, <<"b", "=", "x">> >>,
      <<"git", <<"h", "/", "r">>, <<"b", "=", "x", "/", "y">> >> }

Identities ==
    { Identity(n, src[1], src[2], src[3]) : n \in {<<"a">>, <<"r">>}, src \in Sources }

\* strings no resolver writes: no '#', no version, an encoding the table
\* does not know, an encoding cut short
Malformed ==
    { <<"a">>,
      <<"a", " ", "1">>,
      <<"g", "i", "t", "+", "h", "/", "r", "?", "b", "=", "x", "%", "2", "#", "1">>,
      <<"g", "i", "t", "+", "h", "/", "r", "?", "b", "=", "x", "#", "1", "%">> }

PackageIdStrings ==
    ({Opaque(id) : id \in Identities} \cup {Stable(id) : id \in Identities})
        \cup Malformed

MaxKids == 2

\* Kid::from(PackageId { repr })
KidFrom(repr) ==
    /\ Len(kids) < MaxKids
    /\ package_ids' = Append(package_ids, repr)
    /\ kids' = Append(kids, Kid_from(repr))
    /\ UNCHANGED ConfigVars
    /\ UNCHANGED BuildVars
    /\ UNCHANGED MatchVars
    /\ UNCHANGED IndexVars

NextKid == \E repr \in PackageIdStrings : KidFrom(repr)

SpecKid == Init /\ [][NextKid]_vars

----------------------------------------------------------------------------
(* Identifier equivalence *)

\* the two spellings of one package, both parsed
SamePackage(i, j) ==
    \E id \in Identities :
        /\ package_ids[i] = Opaque(id)
        /\ package_ids[j] = Stable(id)

\* C20: for a package written in the opaque format and in the stable format
\* with the same name, version and source, the two Kids return the same
\* name(), version() and source() and compare equal.
OpaqueMatchesStable ==
    \A i, j \in DOMAIN kids :
        SamePackage(i, j) =>
            /\ ~kids[i].panic /\ ~kids[j].panic
            /\ Kid_name(kids[i]) = Kid_name(kids[j])
            /\ Kid_version(kids[i]) = Kid_version(kids[j])
            /\ Kid_source(kids[i]) = Kid_source(kids[j])
            /\ Kid_eq(kids[i], kids[j])

----------------------------------------------------------------------------
(* PkgSpec::matches on its own.  The specs and the package records of the  *)
(* universe: two names, two versions, a package without a source (a path   *)
(* or workspace package), registry and git sources.                        *)

MatchSpecs ==
    { [name |-> n, version |-> v, url |-> u] :
          n \in {"a", "b"}, v \in {"", "1.0.0", "2.0.0"},
          u \in {<<>>, <<"index">>, <<"repo">>} }

MatchSources ==
    { <<>>,
      <<"registry", "+", "index">>,
      <<"git", "+", "repo">>,
      <<"git", "+", "repo", "#", "rev">>,
      <<"git", "+", "repo", "?", "branch", "#", "rev">> }

MatchPackages ==
    { [name |-> n, version |-> v, source |-> src] :
          n \in {"a", "b"}, v \in {"1.0.0", "2.0.0"}, src \in MatchSources }

\* spec.matches(krate)
Matches(spec, krate) ==
    /\ matched' = <<[spec |-> spec, krate |-> krate,
                     result |-> PkgSpecMatches(spec, krate)]>>
    /\ UNCHANGED ConfigVars
    /\ UNCHANGED BuildVars
    /\ UNCHANGED KidVars
    /\ UNCHANGED IndexVars

NextMatch == \E spec \in MatchSpecs, krate \in MatchPackages : Matches(spec, krate)

SpecMatch == Init /\ [][NextMatch]_vars

----------------------------------------------------------------------------
(* What a package specification matches *)

\* the source without its scheme prefix (up to the first '+') and without
\* what follows the first '?' or '#'
Locator(src) ==
    LET cut == {i \in DOMAIN src : src[i] \in {"?", "#"}}
        end == IF cut = {} THEN Len(src)
               ELSE (CHOOSE i \in cut : \A j \in cut : i <= j) - 1
    IN SubSeq(src, Find(src, "+") + 1, end)

\* C21: matches is true exactly when the names are equal, the spec's
\* version, if any, is the package's, and the spec's url, if any, is the
\* package's source without scheme prefix, query and fragment; a spec with
\* a url never matches on name and version alone.
MatchesIffAllGivenPartsAgree ==
    \A i \in DOMAIN matched :
        LET spec == matched[i].spec
            krate == matched[i].krate
        IN matched[i].result <=>
              /\ spec.name = krate.name
              /\ spec.version # "" => spec.version = krate.version
              /\ spec.url # <<>> =>
                    krate.source # <<>> /\ spec.url = Locator(krate.source)

----------------------------------------------------------------------------
(* Optional dependencies *)

\* the work item a pass of the worklist loop pops
Top == visit_stack[Len(visit_stack)]

\* the edges recorded for p's dependency on d in a dependency map
RecordedEdges(map, p, d) ==
    IF p \in DOMAIN map /\ d \in DOMAIN map[p].deps THEN map[p].deps[d].edges
    ELSE <<>>

\* the edges a pass adds for p's dependency on d
NewEdges(p, d) ==
    LET before == RecordedEdges(dep_edge_map, p, d)
        after == RecordedEdges(dep_edge_map', p, d)
    IN {after[i] : i \in (Len(before) + 1)..Len(after)}

\* the items a pass pushes: what lies above the items that were under the top
Pushed ==
    {visit_stack'[i] : i \in Len(visit_stack)..Len(visit_stack')}

\* p's declarations of a dependency on the package named as d is
Slots(p, d) ==
    {dep \in Range(Record(p).dependencies) : dep.name = KidName(d)}

\* the entries of p's capability with index f in its resolved list
EntriesOf(p, f) ==
    LET n == ResolveNode(p).features[f]
    IN IF n \in DOMAIN Record(p).features THEN Range(Record(p).features[n])
       ELSE {}

\* a capability entry that refers to the dependency d
RefersTo(e, d) ==
    ParsedFeature(e).type # "Simple" /\ ParsedFeature(e).krate = KidName(d)

\* C22: a pass of the worklist loop records an edge for a dependency d of
\* the popped package p only for a non-optional slot of d with the edge's
\* kind and condition, or while expanding a capability of p with an entry
\* that refers to d; the non-optional pass pushes d only when p has a
\* non-optional slot for it.
OptionalOnlyByCapability ==
    [][(pc = "visit" /\ visit_stack # <<>> /\ Top[1] \in PackageIds) =>
          \A d \in AllKids :
              /\ \A e \in NewEdges(Top[1], d) :
                    \/ \E dep \in Slots(Top[1], d) :
                          ~dep.optional /\ dep.kind = e.kind /\ dep.target = e.cfg
                    \/ Top[2] # 0 /\ \E en \in EntriesOf(Top[1], Top[2]) : RefersTo(en, d)
              /\ (Top[2] = 0 /\ \E item \in Pushed : item[1] = d) =>
                    \E dep \in Slots(Top[1], d) : ~dep.optional]_vars

\* a's non-optional pass has run, a's only slot for d is optional, d is in
\* a's resolved dependencies, and the finished graph has no node for d
OptionalLeftOut ==
    /\ Finished
    /\ <<1, 0>> \in Range(expanded)
    /\ 3 \in PackageIds /\ ResolvedOn(1, 3)
    /\ Slots(1, 3) # {} /\ \A dep \in Slots(1, 3) : dep.optional
    /\ ~HasNode(3)

----------------------------------------------------------------------------
(* Cycles: reports whose capability declarations refer to each other in a  *)
(* cycle.  a is the root; it depends on b and on d.  b is a workspace      *)
(* member too when it has a dev-dependency back on a.                      *)

\* the capability declarations of a, b and d and the declarations that a
\* cycle needs, per shape of cycle: a capability that names itself, two
\* local capabilities that name each other, the same in the dependency d,
\* and a cycle through the packages a and b
CycleShape(shape) ==
    LET none == [n \in {"x"} |-> <<>>]
        plainD == [n \in {"f", "g"} |-> <<>>]
    IN CASE shape = "self" ->
              [fa |-> [n \in {"x"} |-> <<Local("x")>>],
               fb |-> EmptyMap, fd |-> plainD, ad |-> <<>>, cross |-> FALSE]
         [] shape = "pair" ->
              [fa |-> [n \in {"x", "y"} |->
                         IF n = "x" THEN <<Local("y")>> ELSE <<Local("x")>>],
               fb |-> EmptyMap, fd |-> plainD, ad |-> <<>>, cross |-> FALSE]
         [] shape = "dself" ->
              [fa |-> none, fb |-> EmptyMap,
               fd |-> [n \in {"f", "g"} |->
                         IF n = "f" THEN <<Local("f")>> ELSE <<>>],
               ad |-> <<"f">>, cross |-> FALSE]
         [] shape = "dpair" ->
              [fa |-> none, fb |-> EmptyMap,
               fd |-> [n \in {"f", "g"} |->
                         IF n = "f" THEN <<Local("g")>> ELSE <<Local("f")>>],
               ad |-> <<"f">>, cross |-> FALSE]
         [] shape = "dstrong" ->
              [fa |-> [n \in {"x"} |-> <<Strong("d", "f")>>], fb |-> EmptyMap,
               fd |-> [n \in {"f", "g"} |->
                         IF n = "f" THEN <<Local("g")>> ELSE <<Local("f")>>],
               ad |-> <<>>, cross |-> FALSE]
         [] shape = "cross" ->
              [fa |-> [n \in {"x"} |-> <<Strong("b", "f")>>],
               fb |-> [n \in {"f"} |-> <<Strong("a", "x")>>],
               fd |-> plainD, ad |-> <<>>, cross |-> TRUE]
         [] shape = "none" ->
              [fa |-> none, fb |-> [n \in {"f"} |-> <<>>], fd |-> plainD,
               ad |-> <<"g">>, cross |-> FALSE]

CycleShapes == {"self", "pair", "dself", "dpair", "dstrong", "cross", "none"}

\* the report of a shape; rooted: the resolution has the root a, otherwise
\* the workspace members are the roots
CycleReport(shape, rooted) ==
    LET c == CycleShape(shape)
        declsAB == <<Decl("b", "Normal", FALSE, NoCfg, <<>>, FALSE)>>
        declsAD == <<Decl("d", "Normal", FALSE, NoCfg, c.ad, FALSE)>>
        declsBA == IF c.cross
                   THEN <<Decl("a", "Dev", FALSE, NoCfg, <<>>, FALSE)>>
                   ELSE <<>>
        pa == Pkg(1, c.fa, declsAB \o declsAD)
        pb == Pkg(2, c.fb, declsBA)
        pd == Pkg(3, c.fd, <<>>)
        na == [id |-> 1,
               deps |-> <<NodeDepOf(2, declsAB), NodeDepOf(3, declsAD)>>,
               features |-> SortNames(DOMAIN c.fa)]
        nb == [id |-> 2,
               deps |-> IF c.cross THEN <<NodeDepOf(1, declsBA)>> ELSE <<>>,
               features |-> SortNames(DOMAIN c.fb)]
        nd == [id |-> 3, deps |-> <<>>,
               features |-> IF shape = "none" THEN <<"g">> ELSE <<"f", "g">>]
    IN [resolve |-> TRUE,
        root |-> IF rooted THEN 1 ELSE 0,
        workspace_root |-> <<"ws">>,
        workspace_members |-> IF c.cross THEN {1, 2} ELSE {1},
        packages |-> AsList({pa, pb, pd}),
        nodes |-> AsList({na, nb, nd})]

CycleMetadata ==
    {CycleReport(shape, rooted) : shape \in CycleShapes, rooted \in BOOLEAN}

NextCycle ==
    \/ \E m \in CycleMetadata : BuildWithMetadata(m)
    \/ BuildSteps

SpecCycle == Init /\ [][NextCycle]_vars

\* the builder runs to its end once it has been called: weak fairness of
\* BuildSteps, with the states in which a step is enabled (a build is under
\* way) written out
FairCycle ==
    SpecCycle /\ ([]<>(pc \in {"config", "done"}) \/ []<><<BuildSteps>>_vars)

----------------------------------------------------------------------------
(* Termination on cyclic capability declarations *)

\* the capabilities of the report: <<package, name>> for every declared name
Capabilities ==
    {<<p, f>> : p \in PackageIds, f \in Range(NameOrder)} \cap
    UNION {{<<p, f>> : f \in DOMAIN Record(p).features} : p \in PackageIds}

\* the capabilities the entries of capability c refer to
RefersToCaps(c) ==
    {t \in Capabilities :
        \E e \in Range(Record(c[1]).features[c[2]]) :
            LET pf == ParsedFeature(e)
            IN IF pf.type = "Simple" THEN t = <<c[1], pf.feature>>
               ELSE pf.type # "Krate" /\ KidName(t[1]) = pf.krate
                    /\ t[2] = pf.feature}

RECURSIVE ReachableCaps(_)
\* the least set that holds S and is closed under RefersToCaps
ReachableCaps(S) ==
    LET step == S \cup UNION {RefersToCaps(c) : c \in S}
    IN IF step = S THEN S ELSE ReachableCaps(step)

OnCycle(c) == c \in ReachableCaps(RefersToCaps(c))

\* what is asked for from outside the capability lists: the resolved
\* capabilities of the roots and the capabilities the declarations name
Seeds ==
    ({<<r, f>> : r \in Roots(md, Cfg), f \in Range(NameOrder)} \cap
     UNION {{<<r, f>> : f \in Range(ResolveNode(r).features)} : r \in Roots(md, Cfg)})
    \cup
    {t \in Capabilities :
        \E p \in PackageIds : \E dep \in Range(Record(p).dependencies) :
            dep.name = KidName(t[1]) /\ t[2] \in Range(dep.features)}

\* the requested capabilities that lie on a cycle
RequestedOnCycle == {c \in ReachableCaps(Seeds \cap Capabilities) : OnCycle(c)}

\* C23: once called, the builder comes to its end for every report of the
\* universe, cyclic capability declarations included, and in the finished
\* graph every requested capability on a cycle is in its package's enabled
\* set.
CyclesTerminate ==
    /\ [](Finished => \A c \in RequestedOnCycle :
                          HasNode(c[1]) /\ c[2] \in FeaturesIn(Graph, c[1]))
    /\ (pc # "config") ~> (pc = "done")

\* a finished build of the report whose cycle runs through the packages a
\* and b, both capabilities of the cycle enabled
CrossPackageCycleBuilt ==
    /\ Finished
    /\ <<1, "x">> \in RequestedOnCycle /\ <<2, "f">> \in RequestedOnCycle
    /\ "x" \in FeaturesIn(Graph, 1) /\ "f" \in FeaturesIn(Graph, 2)

----------------------------------------------------------------------------
(* Work items *)

\* the packages that have been expanded
ExpandedPackages == {expanded[i][1] : i \in DOMAIN expanded}

\* the largest number of resolved capabilities of an expanded package
MaxCapabilities ==
    LET counts == {Len(ResolveNode(p).features) : p \in ExpandedPackages}
    IN IF counts = {} THEN 0 ELSE CHOOSE n \in counts : \A k \in counts : k <= n

\* the capability items the traversal map holds as processed
MarkedItems ==
    UNION {{<<p, f>> : f \in feature_edge_map[p].actual}
               \cup (IF feature_edge_map[p].filled_non_optional THEN {<<p, 0>>}
                     ELSE {})
           : p \in DOMAIN feature_edge_map}

\* C24 as stated: a work item is pushed only once, so the worklist never
\* holds an item twice and never holds an item that has been expanded; it is
\* expanded only once, and at most (packages) x (1 + capabilities) items are
\* expanded.
ItemsPushedAndExpandedOnce ==
    pc = "visit" =>
        /\ NoRepeat(visit_stack)
        /\ Range(visit_stack) \cap Range(expanded) = {}
        /\ NoRepeat(expanded)
        /\ Len(expanded) <= Cardinality(ExpandedPackages) * (1 + MaxCapabilities)

\* C24, amended: a work item may be pushed again, but it is expanded only
\* once: the items that passed the already-processed guard are pairwise
\* different and are exactly the ones the traversal map holds as processed
\* (so the second insertion behind the unreachable!() cannot happen), and at
\* most (expanded packages) x (1 + largest capability count) are expanded.
ItemsExpandedOnce ==
    (pc # "config" /\ result # "panic") =>
        /\ NoRepeat(expanded)
        /\ Range(expanded) = MarkedItems
        /\ Len(expanded) <= Cardinality(ExpandedPackages) * (1 + MaxCapabilities)

\* the worklist holds an expanded item: its next pop is skipped
ExpandedItemOnWorklist ==
    /\ pc = "visit"
    /\ visit_stack # <<>>
    /\ ~NoRepeat(visit_stack)
    /\ Top \in Range(expanded)
    /\ Top[2] # 0

----------------------------------------------------------------------------
(* Edge materialisation: builds of reports in which a declares d in        *)
(* several (kind, condition) variants                                      *)

\* a's declarations of d in the shape
EdgeShape(shape) ==
    CASE shape = "plain" ->
            <<Decl("d", "Normal", FALSE, NoCfg, <<>>, FALSE)>>
      [] shape = "feat" ->
            <<Decl("d", "Normal", FALSE, NoCfg, <<"f">>, FALSE)>>
      [] shape = "defaulted" ->
            <<Decl("d", "Normal", FALSE, NoCfg, <<>>, TRUE)>>
      [] shape = "feat_defaulted" ->
            <<Decl("d", "Build", FALSE, NoCfg, <<"f">>, TRUE)>>
      [] shape = "kinds" ->
            <<Decl("d", "Normal", FALSE, NoCfg, <<>>, FALSE),
              Decl("d", "Build", FALSE, NoCfg, <<"f">>, FALSE),
              Decl("d", "Dev", FALSE, NoCfg, <<"f", "g">>, FALSE)>>
      [] shape = "targets" ->
            <<Decl("d", "Normal", FALSE, Triple("linux"), <<>>, FALSE),
              Decl("d", "Normal", FALSE, Triple("windows"), <<"g">>, FALSE)>>
      [] shape = "twice" ->
            <<Decl("d", "Normal", FALSE, NoCfg, <<"f">>, FALSE),
              Decl("d", "Normal", FALSE, NoCfg, <<"g">>, FALSE)>>
      [] shape = "listed_default" ->
            <<Decl("d", "Normal", FALSE, NoCfg, <<"default">>, TRUE)>>

EdgeShapes == {"plain", "feat", "defaulted", "feat_defaulted", "kinds",
               "targets", "twice", "listed_default"}

\* the report of a shape; d is resolved with or without its default
\* capability
EdgeReport(shape, with_default) ==
    LET declsAD == EdgeShape(shape)
        pa == Pkg(1, EmptyMap, declsAD)
        pd == Pkg(3, FeaturesD, <<>>)
        na == [id |-> 1, deps |-> <<NodeDepOf(3, declsAD)>>, features |-> <<>>]
        nd == [id |-> 3, deps |-> <<>>,
               features |-> IF with_default THEN <<"default", "f", "g">>
                            ELSE <<"f", "g">>]
    IN [resolve |-> TRUE,
        root |-> 1,
        workspace_root |-> <<"ws">>,
        workspace_members |-> {1},
        packages |-> AsList({pa, pd}),
        nodes |-> AsList({na, nd})]

EdgeMetadata ==
    {EdgeReport(shape, with_default) :
        shape \in EdgeShapes \ {"listed_default"}, with_default \in BOOLEAN}
    \cup {EdgeReport("listed_default", TRUE)}

NextEdge ==
    \/ \E m \in EdgeMetadata : BuildWithMetadata(m)
    \/ BuildSteps

SpecEdge == Init /\ [][NextEdge]_vars

\* p's resolved dependency on d
ResolvedDep(p, d) ==
    CHOOSE rdep \in Range(ResolveNode(p).deps) : rdep.pkg = d

\* the capabilities of d that the declaration behind the variant dk of p's
\* dependency on d contributes: its feature list, and "default" when it
\* uses the default capability and d has one
Contributed(p, d, dk) ==
    LET dep == Record(p).dependencies[FindDeclared(Record(p), ResolvedDep(p, d), dk)]
    IN Range(dep.features)
       \cup (IF dep.uses_default_features /\ "default" \in ReportedFeatures(d)
             THEN {"default"} ELSE {})

\* the edges of the given type that carry the variant dk from p's node to
\* the nodes in targets
VariantEdges(p, dk, type, targets) ==
    {i \in DOMAIN graph_edges :
        /\ graph_edges[i].src = NodeOfKid(p)
        /\ graph_edges[i].dst \in targets
        /\ graph_edges[i].edge = [type |-> type, kind |-> dk.kind, cfg |-> dk.cfg]}

\* the capability nodes of d named c
CapabilityNodes(d, c) ==
    {n \in FeatureNodes :
        graph_nodes[n].krate_index = NodeOfKid(d) /\ graph_nodes[n].name = c}

\* C25: in a finished graph, for every package p with a node, every
\* dependency d of p with a node and every surviving (kind, condition)
\* variant of it, there is exactly one Dep edge p -> d with that kind and
\* condition when the variant contributes no capability, and otherwise
\* exactly one DepFeature edge with that kind and condition to d's node of
\* each contributed capability and no Dep edge; equal (kind, condition)
\* variants give one edge, different kinds one each.
EdgesMaterialised ==
    Finished =>
        \A p \in PackageIds, d \in PackageIds :
            (HasNode(p) /\ HasNode(d) /\ ResolvedOn(p, d)) =>
                \A dk \in SurvivingVariants(p, d) :
                    LET caps == Contributed(p, d, dk)
                        direct == VariantEdges(p, dk, "Dep", {NodeOfKid(d)})
                    IN IF caps = {}
                       THEN Cardinality(direct) = 1
                       ELSE /\ direct = {}
                            /\ \A c \in caps :
                                  Cardinality(VariantEdges(p, dk, "DepFeature",
                                                  CapabilityNodes(d, c))) = 1

----------------------------------------------------------------------------
(* Capability nodes *)

\* the package that owns the capability node n
OwnerOf(n) == graph_nodes[graph_nodes[n].krate_index].id

\* C26: a finished graph has at most one capability node per (owning
\* package, capability name), whichever of the three sites created it
\* (attach, get_or_insert, the wiring of sub-capabilities), and the owner of
\* a capability node is a package that declares the capability it names.
OneNodePerCapability ==
    Finished =>
        /\ \A n \in FeatureNodes, k \in FeatureNodes :
              (OwnerOf(n) = OwnerOf(k) /\ graph_nodes[n].name = graph_nodes[k].name)
                  => n = k
        /\ \A n \in FeatureNodes :
              graph_nodes[n].name \in DOMAIN Record(OwnerOf(n)).features

----------------------------------------------------------------------------
(* Direct-dependency markers: builds of reports in which a capability of a *)
(* lists dep:<name> for an optional dependency on d, declared under d's    *)
(* own name or renamed to dd                                               *)

\* the report: a's optional dependency on d is renamed or not, the
\* capability x = [dep:<name>] (and a local capability y when `more`) is
\* enabled or not, the resolution has the root a or not
MarkerReport(renamed, more, on, rooted) ==
    LET n == IF renamed THEN "dd" ELSE "d"
        declsAD == <<[Decl("d", "Normal", TRUE, NoCfg, <<>>, FALSE)
                        EXCEPT !.rename = IF renamed THEN "dd" ELSE ""]>>
        fa == [c \in {"x", "y"} |->
                 IF c = "y" THEN <<>>
                 ELSE <<DepMarker(n)>> \o (IF more THEN <<Local("y")>> ELSE <<>>)]
        pa == Pkg(1, fa, declsAD)
        pd == Pkg(3, FeaturesD, <<>>)
        na == [id |-> 1,
               deps |-> IF on
                        THEN <<[NodeDepOf(3, declsAD) EXCEPT !.name = n]>>
                        ELSE <<>>,
               features |-> IF ~on THEN <<>>
                            ELSE IF more THEN <<"x", "y">> ELSE <<"x">>]
        nd == [id |-> 3, deps |-> <<>>, features |-> <<"f", "g">>]
    IN [resolve |-> TRUE,
        root |-> IF rooted THEN 1 ELSE 0,
        workspace_root |-> <<"ws">>,
        workspace_members |-> {1},
        packages |-> AsList({pa, pd}),
        nodes |-> AsList({na} \cup (IF on THEN {nd} ELSE {}))]

MarkerMetadata ==
    {MarkerReport(renamed, more, on, rooted) :
        renamed \in BOOLEAN, more \in BOOLEAN, on \in BOOLEAN, rooted \in BOOLEAN}

NextMarker ==
    \/ \E m \in MarkerMetadata : BuildWithMetadata(m)
    \/ BuildSteps

SpecMarker == Init /\ [][NextMarker]_vars

\* the markers that the enabled capabilities of p list: <<capability,
\* name, package the name resolves to>>
Markers(p) ==
    {<<c, e[2], get_dep_id(ResolveNode(p), e[2])>> :
        <<c, e>> \in {ce \in (graph_nodes[NodeOfKid(p)].features
                                \cap DOMAIN Record(p).features)
                             \X EnabledEntries(p) :
                        /\ ce[2] \in Range(Record(p).features[ce[1]])
                        /\ Len(ce[2]) = 2
                        /\ ce[2][1] = "dep:"}}

\* C27: a dep:<name> entry of an enabled capability, for a plain and for a
\* renamed dependency, creates no capability node and adds no name to an
\* enabled set: in the finished graph no capability node is named by the
\* marker unless its owner declares that capability, the name is in the
\* declaring package's set only if the resolver reported it, and the
\* declaring capability's node has an edge to the target's package node.
MarkerOnlyPullsIn ==
    Finished =>
        \A p \in PackageIds :
            HasNode(p) =>
                \A mk \in Markers(p) :
                    (mk[3] # 0 /\ HasNode(mk[3])) =>
                        /\ \A o \in {p, mk[3]} :
                              \/ mk[2] \in DOMAIN Record(o).features
                              \/ CapabilityNodes(o, mk[2]) = {}
                        /\ mk[2] \in graph_nodes[NodeOfKid(p)].features
                              => mk[2] \in ReportedFeatures(p)
                        /\ \E i \in DOMAIN graph_edges :
                              /\ graph_edges[i].src \in CapabilityNodes(p, mk[1])
                              /\ graph_edges[i].dst = NodeOfKid(mk[3])
                              /\ graph_edges[i].edge = FeatureEdge

----------------------------------------------------------------------------
(* Order independence *)

\* the report m with the references of every capability declaration listed
\* in the opposite order
ReversedLists(m) ==
    [m EXCEPT !.packages =
        [i \in DOMAIN m.packages |->
            [m.packages[i] EXCEPT !.features =
                [n \in DOMAIN m.packages[i].features |->
                    LET l == m.packages[i].features[n]
                    IN [j \in DOMAIN l |-> l[Len(l) + 1 - j]]]]]]

\* in the graph g: a node by what it stands for, <<package, "">> or
\* <<owning package, capability name>>
NodeKey(g, n) ==
    IF g.nodes[n].type = "Krate" THEN <<g.nodes[n].id, "">>
    ELSE <<g.nodes[g.nodes[n].krate_index].id, g.nodes[n].name>>

\* in the graph g: the packages with their enabled capabilities, and the
\* edges between what their ends stand for
Content(g) ==
    [packages |-> {<<g.nodes[n].id, g.nodes[n].features>> :
                      n \in {k \in DOMAIN g.nodes : g.nodes[k].type = "Krate"}},
     edges |-> {<<NodeKey(g, g.edges[i].src), NodeKey(g, g.edges[i].dst),
                  g.edges[i].edge>> : i \in DOMAIN g.edges}]

\* C28: for a fixed report and configuration the finished graph (packages,
\* their enabled capabilities, edges) does not depend on the order in which
\* the references of a capability declaration are listed: the build of the
\* report with every list reversed ends the same way with the same content.
OrderIndependent ==
    Finished =>
        LET other == Build(ReversedLists(md), Cfg)
        IN /\ other.result = "Ok"
           /\ Content(other.g) = Content(Graph)

----------------------------------------------------------------------------
(* Package records without a resolution node: builds of reports whose      *)
(* package list holds a, b and d while the resolution holds only some of   *)
(* them (as under cargo metadata --filter-platform, which prunes the       *)
(* resolution and leaves the package list whole)                           *)

\* the report whose resolution has the packages of `resolved`; a declares b
\* for windows and d with the capabilities feats, b declares d
StrayReport(resolved, feats) ==
    LET declsAB == <<Decl("b", "Normal", FALSE, Triple("windows"), <<>>, FALSE)>>
        declsAD == <<Decl("d", "Normal", FALSE, NoCfg, feats, FALSE)>>
        declsBD == <<Decl("d", "Build", FALSE, NoCfg, <<>>, FALSE)>>
        pa == Pkg(1, [c \in {"x"} |-> <<>>], declsAB \o declsAD)
        pb == Pkg(2, EmptyMap, declsBD)
        pd == Pkg(3, FeaturesD, <<>>)
        na == [id |-> 1,
               deps |-> (IF 2 \in resolved THEN <<NodeDepOf(2, declsAB)>> ELSE <<>>)
                        \o (IF 3 \in resolved THEN <<NodeDepOf(3, declsAD)>>
                            ELSE <<>>),
               features |-> <<"x">>]
        nb == [id |-> 2,
               deps |-> IF 3 \in resolved THEN <<NodeDepOf(3, declsBD)>> ELSE <<>>,
               features |-> <<>>]
        nd == [id |-> 3, deps |-> <<>>, features |-> <<"f", "g">>]
        first == CHOOSE k \in resolved : \A j \in resolved : k <= j
    IN [resolve |-> TRUE,
        root |-> 0,
        workspace_root |-> <<"ws">>,
        workspace_members |-> {first},
        packages |-> AsList({pa, pb, pd}),
        nodes |-> AsList({n \in {na, nb, nd} : n.id \in resolved})]

StrayMetadata ==
    {StrayReport(resolved, feats) :
        resolved \in (SUBSET {1, 2, 3}) \ {{}}, feats \in {<<>>, <<"f">>}}

NextStray ==
    \/ \E m \in StrayMetadata : BuildWithMetadata(m)
    \/ BuildSteps

SpecStray == Init /\ [][NextStray]_vars

\* C29: for every work item that is popped and expanded, the package record
\* consulted for the exclusion test, the capability declarations and the
\* declared dependencies (the record at the position the search in the
\* resolution nodes returns) is the record of the item's package, also when
\* the package list has records without a resolution node.
ConsultedRecordIsOwn ==
    (pc = "visit" /\ visit_stack # <<>>
        /\ ~check(feature_edge_map, Top[1], Top[2])) =>
        LET krate_index == NodeIndex(Nodes(md), Top[1])
        IN /\ krate_index \in DOMAIN Packages(md)
           /\ Packages(md)[krate_index].id = Top[1]

----------------------------------------------------------------------------
(* The caching index shared between threads                                *)
(*                                                                         *)
(* cache is the BTreeMap behind the RwLock; readers are the threads that    *)
(* hold a read guard, writer the thread that holds the write guard (0:      *)
(* none).  The guard of `if let Some(..) = self.cache.read().unwrap()       *)
(* .get(name)` is a temporary of the scrutinee: the language drops it at    *)
(* the end of the whole if-let statement in the editions up to 2021 and     *)
(* before the else block from the 2024 edition on.  The edition is fixed    *)
(* when the crate is built; it is chosen when the index is made.            *)

Editions == {2021, 2024}

IndexNames == {"a", "b"}
IndexVersions == {1, 2}

\* how many calls a thread makes
MaxCalls == 2

\* the inner index: crate a is known with version 1 and its capability map,
\* crate b is unknown
index_krate(name) ==
    IF name = "a" THEN <<[version |-> 1, features |-> "features of a 1"]>>
    ELSE "None"

\* what on_features gets from a cache entry: the capability map of the
\* version, "None" for an unknown crate or version
FeaturesOf(index_krate_entry, version) ==
    IF index_krate_entry = "None" THEN "None"
    ELSE IF \E i \in DOMAIN index_krate_entry : index_krate_entry[i].version = version
    THEN (CHOOSE ikv \in Range(index_krate_entry) : ikv.version = version).features
    ELSE "None"

\* CachingIndex::new, in a crate built with the edition
CachingIndexNew(edition) ==
    /\ caching_index.edition = 0
    /\ caching_index' = [caching_index EXCEPT !.edition = edition]
    /\ UNCHANGED <<threads, matched>>
    /\ UNCHANGED ConfigVars
    /\ UNCHANGED BuildVars
    /\ UNCHANGED KidVars

\* what the index actions leave alone
NotIndexVars == <<matched, ConfigVars, BuildVars, KidVars>>

\* a thread enters one of the three methods
Call(t, op, name, version) ==
    /\ caching_index.edition # 0
    /\ threads[t].pc = "idle"
    /\ threads[t].calls < MaxCalls
    /\ threads' = [threads EXCEPT ![t] =
            [pc |-> IF op = "index_krate_features" THEN "read" ELSE op,
             op |-> op, name |-> name, version |-> version,
             invoked |-> 0, served |-> "", calls |-> @.calls + 1]]
    /\ UNCHANGED caching_index
    /\ UNCHANGED NotIndexVars

\* self.cache.read().unwrap().get(name): the read guard is taken when no
\* thread writes, and the lookup decides the arm
ReadLock(t) ==
    /\ threads[t].pc = "read"
    /\ caching_index.writer = 0
    /\ caching_index' = [caching_index EXCEPT !.readers = @ \cup {t}]
    /\ threads' = [threads EXCEPT ![t].pc =
            IF threads[t].name \in DOMAIN caching_index.cache THEN "hit" ELSE "miss"]
    /\ UNCHANGED NotIndexVars

\* the Some arm: on_features(fm); return; the guard goes with the return
Hit(t) ==
    /\ threads[t].pc = "hit"
    /\ threads' = [threads EXCEPT
            ![t].pc = "idle",
            ![t].invoked = @ + 1,
            ![t].served = FeaturesOf(caching_index.cache[threads[t].name],
                                     threads[t].version)]
    /\ caching_index' = [caching_index EXCEPT !.readers = @ \ {t}]
    /\ UNCHANGED NotIndexVars

\* entering the else arm: the read guard is dropped here only from the 2024
\* edition on
Miss(t) ==
    /\ threads[t].pc = "miss"
    /\ threads' = [threads EXCEPT ![t].pc = "write"]
    /\ caching_index' = [caching_index EXCEPT !.readers =
            IF caching_index.edition = 2024 THEN @ \ {t} ELSE @]
    /\ UNCHANGED NotIndexVars

\* a write guard can be taken: nobody writes and nobody reads
CanWrite == caching_index.writer = 0 /\ caching_index.readers = {}

\* self.cache.write().unwrap().insert(name, self.inner.index_krate(name)):
\* the write guard lives for this statement; then the loop starts over
WriteInsert(t) ==
    /\ threads[t].pc = "write"
    /\ CanWrite
    /\ caching_index' = [caching_index EXCEPT !.cache =
            Put(@, threads[t].name, index_krate(threads[t].name))]
    /\ threads' = [threads EXCEPT ![t].pc = "read"]
    /\ UNCHANGED NotIndexVars

\* RwLock::write called by a thread that holds a read guard of the lock
\* "might panic" instead of blocking: the thread unwinds and its guard goes
WritePanics(t) ==
    /\ threads[t].pc = "write"
    /\ t \in caching_index.readers
    /\ threads' = [threads EXCEPT ![t].pc = "panicked"]
    /\ caching_index' = [caching_index EXCEPT !.readers = @ \ {t}]
    /\ UNCHANGED NotIndexVars

\* prepare_cache_entries: let mut cache = self.cache.write().unwrap()
PrepareLock(t) ==
    /\ threads[t].pc = "prepare_cache_entries"
    /\ CanWrite
    /\ caching_index' = [caching_index EXCEPT !.writer = t]
    /\ threads' = [threads EXCEPT ![t].pc = "prepare_held"]
    /\ UNCHANGED NotIndexVars

\* prepare_cache_entries: the loop over krate_set (here the one name of the
\* call) and the drop of the guard
PrepareInsert(t) ==
    /\ threads[t].pc = "prepare_held"
    /\ caching_index' = [caching_index EXCEPT
            !.cache = Put(@, threads[t].name, index_krate(threads[t].name)),
            !.writer = 0]
    /\ threads' = [threads EXCEPT ![t].pc = "idle"]
    /\ UNCHANGED NotIndexVars

\* clear: self.cache.write().unwrap().clear()
Clear(t) ==
    /\ threads[t].pc = "clear"
    /\ CanWrite
    /\ caching_index' = [caching_index EXCEPT !.cache = [k \in {} |-> 0]]
    /\ threads' = [threads EXCEPT ![t].pc = "idle"]
    /\ UNCHANGED NotIndexVars

\* the steps a thread takes inside a method once it has been called, save
\* the panic, which the lock may or may not answer with
Proceed(t) ==
    \/ ReadLock(t)
    \/ Hit(t)
    \/ Miss(t)
    \/ WriteInsert(t)
    \/ PrepareLock(t)
    \/ PrepareInsert(t)
    \/ Clear(t)

NextIndex ==
    \/ \E edition \in Editions : CachingIndexNew(edition)
    \/ \E t \in Threads :
          \/ \E name \in IndexNames, version \in IndexVersions :
                Call(t, "index_krate_features", name, version)
          \/ \E name \in IndexNames : Call(t, "prepare_cache_entries", name, 0)
          \/ Call(t, "clear", "", 0)
    \/ \E t \in Threads : Proceed(t)
    \/ \E t \in Threads : WritePanics(t)

SpecIndex == Init /\ [][NextIndex]_vars

\* every thread that can take a step inside a method takes one: the threads
\* are scheduled by the operating system
FairIndex == SpecIndex /\ \A t \in Threads : WF_vars(Proceed(t))

\* the thread is inside index_krate_features
InFeatures(t) == threads[t].pc \in {"read", "hit", "miss", "write"}

\* C30: index_krate_features always returns after invoking on_features
\* exactly once, on a hit and on a miss: it never invokes it twice, it has
\* invoked it once with the inner index's answer when it has returned, on a
\* miss it does not wait for the write lock while it still holds the read
\* guard of its lookup, and every call returns, for any interleaving of
\* threads that call index_krate_features, prepare_cache_entries and clear.
FeaturesServedOnce ==
    /\ [](\A t \in Threads :
            /\ threads[t].invoked <= 1
            /\ (threads[t].pc = "idle" /\ threads[t].op = "index_krate_features")
                  => /\ threads[t].invoked = 1
                     /\ threads[t].served =
                            FeaturesOf(index_krate(threads[t].name),
                                       threads[t].version)
            /\ ~(threads[t].pc = "write" /\ t \in caching_index.readers))
    /\ \A t \in Threads : InFeatures(t) ~> (threads[t].pc = "idle")

====
